---- MODULE Spec2Model ----
(***************************************************************************)
(* A model of eyelinkparser's trial/phase state machine                    *)
(* (src/eyelinkparser/_eyelinkparser.py, src/eyelinkparser/_events.py).    *)
(*                                                                         *)
(* One behaviour is one call of EyeLinkParser.parse_file on one file, or  *)
(* one call of EyeLinkParser.__init__ on one folder (then parse_file is    *)
(* the operator parse_file_of).  A                                         *)
(* line of the file is the token list that split() makes of it; Python's   *)
(* 0-based l[i] is l[i+1] here.  Every Python value is a record            *)
(* [k, s, n]: k is the Python type, s the text of a str, n the number of   *)
(* an int or float (only floats with an integral value are enumerated).    *)
(***************************************************************************)
EXTENDS Integers, Sequences, FiniteSets, TLC

VARIABLES
    cfg,            \* the constructor's keyword arguments (never change)
    inputs,         \* the lines the file may hold (never changes)
    maxlines,       \* the length of the longest file read (never changes)
    f_read,         \* the lines the file object f has yielded so far
    pc,             \* "file": parse_file's loop; "trial": parse_trial's loop;
                    \* "done": parse_file returned; "raised": it raised
    exc,            \* the exception that left parse_file, "" if none
    trialid,        \* self.trialid
    current_phase,  \* self.current_phase
    acc,            \* self.ptrace ... self.blinketlist
    t_onset,        \* self._t_onset
    trialdm,        \* self.trialdm: column name -> cell
    filedm,         \* self.filedm: the trial records, in row order
    l,              \* parse_trial's local l, <<>> bound to nothing yet
    l_bound,        \* whether parse_trial's local l is bound
    ntrial,         \* parse_file's local ntrial
    warned,         \* the warnings.warn calls of the latest step, in order
    called,         \* the self._traceprocessor calls of the latest step
    filtered,       \* the self._phasefilter calls of the latest step: the
                    \* name asked about and the phase open at the call
    linestack,      \* self._linestack
    message,        \* self._message (SMIParser), None while it is not set
    fresh,          \* whether the generator stacked_file(f) of parse_trial
                    \* has yet to yield its first line
    eof,            \* whether f is exhausted
    pushed,         \* the lines redo_line was called with so far, in order
    redone,         \* the lines stacked_file yielded from self._linestack
                    \* so far, in order
    csv_dm,         \* csv_dm (GazePointParser): the table next to the file
                    \* (never changes)
    kw,             \* __init__'s keyword arguments (never change)
    listdir,        \* the files of the folder (never changes)
    ipc,            \* __init__'s position: "start", "loop" (the for loop),
                    \* "map" (p.map), "pop" (the while loop), "done",
                    \* "raised"; "parse_file" when one call of parse_file is
                    \* all there is
    iexc,           \* the exception that left __init__, "" if none
    listed,         \* whether os.listdir was called
    self_traceprocessor,    \* self._traceprocessor
    input_files,    \* input_files, as a list
    nparsed,        \* how many passes the for loop made
    pool,           \* the processes of the pool p, 0 if there is no pool
    tasks,          \* p.map's tasks: per input file, "queued", "running"
                    \* or "done"
    completed,      \* the tasks that are done, in the order they got done
    results,        \* per task that is done, what parse_file returned
    filedms,        \* filedms
    dm,             \* self.dm: the trial records, in row order
    fs,             \* the paths of the files that exist
    temp_files,     \* self._temp_files
    oslog,          \* what was done to files and to self._temp_files so
                    \* far, in order: <<"register", path>>, <<"extract",
                    \* path>>, <<"edf2asc", path, new_path>>, <<"remove",
                    \* path>>
    child_temp_files,   \* per task of p.map that is done: self._temp_files
                    \* of the copy of the parser that ran the task
    margs,          \* the arguments l and ref of one call of match (never
                    \* change)
    mret            \* what the call returned: "True" or "False"; "pending"
                    \* before it returns, "none" if no call is modelled

filevars == <<cfg, inputs, maxlines, f_read, pc, exc, trialid, current_phase,
              acc, t_onset, trialdm, filedm, l, l_bound, ntrial, warned,
              called, filtered, linestack, message, fresh, eof, pushed,
              redone, csv_dm>>
initvars == <<kw, listdir, ipc, iexc, listed, self_traceprocessor,
              input_files, nparsed, pool, tasks, completed, results, filedms,
              dm>>
matchvars == <<margs, mret>>
tempvars == <<fs, temp_files, oslog, child_temp_files>>
vars == <<filevars, initvars, matchvars, tempvars>>

\* The longest file that is read, per specification.
MaxLinesTrials == 6
MaxLinesToggles == 5
MaxLinesScenario == 6
MaxLinesEvents == 5
MaxLinesTrunc == 5
MaxLinesVars == 5
MaxLinesMissing == 5
MaxLinesProcessor == 4
MaxLinesPhases == 5
MaxLinesErrors == 6
MaxLinesEof == 5

-----------------------------------------------------------------------------
\* Python values

None == [k |-> "none", s |-> "", n |-> 0]
IntV(n) == [k |-> "int", s |-> "", n |-> n]
FloatV(n) == [k |-> "float", s |-> "", n |-> n]
StrV(s) == [k |-> "str", s |-> s, n |-> 0]
NaN == [k |-> "float", s |-> "nan", n |-> 0]

IsStr(x) == x.k = "str"
IsNum(x) == x.k \in {"int", "float"}
IsNaN(x) == x.k = "float" /\ x.s = "nan"

\* Python's == on the values above (nan equals nothing).
PyEq(a, b) ==
    \/ IsStr(a) /\ IsStr(b) /\ a.s = b.s
    \/ IsNum(a) /\ IsNum(b) /\ ~IsNaN(a) /\ ~IsNaN(b) /\ a.n = b.n
    \/ a.k = "none" /\ b.k = "none"

\* safe_decode(i): the text of a value.
safe_decode(x) ==
    IF IsStr(x) THEN x.s
    ELSE IF IsNaN(x) THEN "nan"
    ELSE IF x.k = "int" THEN ToString(x.n)
    ELSE IF x.k = "float" THEN ToString(x.n) \o ".0"
    ELSE "None"

RECURSIVE JoinFrom(_, _)
\* u' '.join([safe_decode(i) for i in l[i-1:]])
JoinFrom(toks, i) ==
    IF i > Len(toks) THEN ""
    ELSE IF i = Len(toks) THEN safe_decode(toks[i])
    ELSE safe_decode(toks[i]) \o " " \o JoinFrom(toks, i + 1)

\* A table: column name -> cell.
EmptyTable == [x \in {} |-> None]
Put(d, key, val) ==
    [x \in (DOMAIN d) \cup {key} |-> IF x = key THEN val ELSE d[x]]

\* A series cell (a SeriesColumn's row).
Series(v) == [k |-> "series", s |-> "", n |-> 0, v |-> v]

-----------------------------------------------------------------------------
\* match(l, *ref)

Lit(tok) == [m |-> "lit", lits |-> {tok}, kinds |-> {}]
LitSet(S) == [m |-> "tuple", lits |-> S, kinds |-> {}]
Kind(k) == [m |-> "type", lits |-> {}, kinds |-> {k}]
KindSet(K) == [m |-> "tuple", lits |-> {}, kinds |-> K]
ANY_VALUE == KindSet({"int", "float", "str"})
ANY_VALUES == KindSet({"list", "int", "float", "str"})

MatchEntry(i1, i2) ==
    \/ i2.m = "lit" /\ \E x \in i2.lits : PyEq(i1, x)
    \/ i2.m = "tuple" /\ \E x \in i2.lits : PyEq(i1, x)
    \/ i2.m = "type" /\ i1.k \in i2.kinds
    \/ i2.m = "tuple" /\ i2.kinds # {} /\ i1.k \in i2.kinds

\* A variant without the test len(ref) > len(l): tokens are compared with
\* the schema as far as both go.
match_prefix(toks, ref) ==
    IF Len(toks) # Len(ref) /\ ref[Len(ref)] # ANY_VALUES
    THEN FALSE
    ELSE \A i \in 1..Len(ref) :
            i <= Len(toks) => MatchEntry(toks[i], ref[i])

match(toks, ref) ==
    IF Len(toks) # Len(ref)
       /\ (ref[Len(ref)] # ANY_VALUES \/ Len(ref) > Len(toks))
    THEN FALSE
    ELSE \A i \in 1..Len(ref) : MatchEntry(toks[i], ref[i])

MSG == Lit(StrV("MSG"))

\* No call of match is modelled on its own.
NoMatch ==
    /\ margs = [l |-> <<>>, ref |-> <<>>]
    /\ mret = "none"

-----------------------------------------------------------------------------
\* Events (_events.py)

\* Event.assert_numeric passes.
assert_numeric(toks, indices) ==
    IF cfg.fastnumbers
    THEN \A i \in indices : IsNum(toks[i])
    ELSE \A i \in indices : IsNum(toks[i]) /\ ~IsNaN(toks[i]) /\ toks[i].n > 0

SampleMatch(toks) == Len(toks) \in {5, 6, 8, 9} /\ ~IsStr(toks[1])
FixationMatch(toks) == Len(toks) = 8 /\ PyEq(toks[1], StrV("EFIX"))
BlinkMatch(toks) == Len(toks) = 5 /\ PyEq(toks[1], StrV("EBLINK"))

\* sample(l) is not None
sample_ok(toks) == SampleMatch(toks) /\ assert_numeric(toks, {1})
\* fixation(l) is not None
fixation_ok(toks) == FixationMatch(toks) /\ assert_numeric(toks, 3..8)
\* blink(l) is not None
blink_ok(toks) == BlinkMatch(toks) /\ assert_numeric(toks, 3..5)

\* Sample(l).x, .y, .pupil_size, .t
SampleX(toks) == IF PyEq(toks[2], StrV(".")) THEN NaN ELSE toks[2]
SampleY(toks) == IF PyEq(toks[3], StrV(".")) THEN NaN ELSE toks[3]
\* A variant that takes a pupil size of 0 as it is.
SamplePupil_zero(toks) == IF PyEq(toks[4], StrV(".")) THEN NaN ELSE toks[4]

SamplePupil(toks) ==
    IF PyEq(toks[4], IntV(0)) \/ PyEq(toks[4], StrV(".")) THEN NaN ELSE toks[4]
SampleT(toks) == toks[1]

-----------------------------------------------------------------------------
\* The parser object, as one record, so that a method is an operator from
\* the object before the call to the object after it.

Self ==
    [exc |-> exc, trialid |-> trialid, current_phase |-> current_phase,
     acc |-> acc, t_onset |-> t_onset, trialdm |-> trialdm,
     warned |-> <<>>, called |-> <<>>, filtered |-> <<>>,
     linestack |-> linestack, message |-> message, pushed |-> pushed]

Warn(s, w) == [s EXCEPT !.warned = Append(@, w)]
Raise(s, e) == [s EXCEPT !.exc = e]

EmptyAcc ==
    [ptrace |-> <<>>, xtrace |-> <<>>, ytrace |-> <<>>, ttrace |-> <<>>,
     fixxlist |-> <<>>, fixylist |-> <<>>, fixstlist |-> <<>>,
     fixetlist |-> <<>>, blinkstlist |-> <<>>, blinketlist |-> <<>>]

-----------------------------------------------------------------------------
\* end_phase

\* The traces end_phase stores, in its order: (tracelabel, prefix, trace);
\* a tracelabel of None is "".
TRACES ==
    << [label |-> "pupil", prefix |-> "ptrace_", field |-> "ptrace"],
       [label |-> "xcoor", prefix |-> "xtrace_", field |-> "xtrace"],
       [label |-> "ycoor", prefix |-> "ytrace_", field |-> "ytrace"],
       [label |-> "time", prefix |-> "ttrace_", field |-> "ttrace"],
       [label |-> "", prefix |-> "fixxlist_", field |-> "fixxlist"],
       [label |-> "", prefix |-> "fixylist_", field |-> "fixylist"],
       [label |-> "", prefix |-> "fixstlist_", field |-> "fixstlist"],
       [label |-> "", prefix |-> "fixetlist_", field |-> "fixetlist"],
       [label |-> "", prefix |-> "blinkstlist_", field |-> "blinkstlist"],
       [label |-> "", prefix |-> "blinketlist_", field |-> "blinketlist"] >>

\* The toggles pupil_size, gaze_pos and time_trace leave a trace out.
Skipped(label) ==
    \/ label = "pupil" /\ ~cfg.pupil_size
    \/ label \in {"xcoor", "ycoor"} /\ ~cfg.gaze_pos
    \/ label = "time" /\ ~cfg.time_trace

\* The prefixes whose column end_phase starts at 0.
RebasedPrefixes ==
    {"ttrace_", "fixstlist_", "fixetlist_", "blinkstlist", "blinketlist"}

\* np.array(trace, dtype=float) accepts the entry ...
FloatOk(x) == IsNum(x) \/ (IsStr(x) /\ x.s = "nan")
\* ... and makes this of it.
ToFloat(x) == IF IsNum(x) /\ ~IsNaN(x) THEN FloatV(x.n) ELSE NaN
np_array(trace) == [i \in 1..Len(trace) |-> ToFloat(trace[i])]

\* self._traceprocessor(tracelabel, trace), for the one processor that is
\* enumerated: a downsampling by two that keeps every other entry.
traceprocessor(label, trace) ==
    [i \in 1..((Len(trace) + 1) \div 2) |-> trace[2 * i - 1]]

\* trace[:self._maxtracelen]
Truncated(trace) == SubSeq(trace, 1, cfg.maxtracelen.n)

\* self.trialdm[colname][0] -= self._t_onset
Minus(x, onset) == IF IsNaN(x) THEN NaN ELSE FloatV(x.n - onset.n)
Rebased(trace, onset) == [i \in 1..Len(trace) |-> Minus(trace[i], onset)]

\* The trace after the trace processor, before truncation.
Processed(label, raw) ==
    IF label # "" /\ cfg.traceprocessor # "none"
    THEN traceprocessor(label, np_array(raw))
    ELSE np_array(raw)

\* A variant that hands the fixation and blink lists to the trace processor
\* too.
Calls_lists(log, label, raw) ==
    IF cfg.traceprocessor # "none"
    THEN Append(log, <<label, np_array(raw)>>)
    ELSE log

\* The calls of the trace processor so far and the one, if any, that a
\* pass of end_phase's loop makes for the trace raw: (label, trace).
Calls(log, label, raw) ==
    IF label # "" /\ cfg.traceprocessor # "none"
    THEN Append(log, <<label, np_array(raw)>>)
    ELSE log

TooLong(trace) ==
    cfg.maxtracelen # None /\ Len(trace) > cfg.maxtracelen.n

\* The cell end_phase stores for a trace.
Stored(tr, raw, onset) ==
    LET p == Processed(tr.label, raw)
        c == IF TooLong(p) THEN Truncated(p) ELSE p
    IN  IF Len(c) > 0 /\ tr.prefix \in RebasedPrefixes
        THEN Rebased(c, onset)
        ELSE c

\* A variant that truncates the trace before the trace processor sees it.
end_phase_trace_early(s, tr) ==
    LET raw == s.acc[tr.field]
        cut == IF TooLong(raw) THEN Truncated(raw) ELSE raw
    IN  IF Skipped(tr.label) THEN s
        ELSE IF \E i \in 1..Len(raw) : ~FloatOk(raw[i])
        THEN Raise(s, "ValueError")
        ELSE IF s.current_phase = None THEN Raise(s, "TypeError")
        ELSE LET w == IF TooLong(raw)
                      THEN Warn(s, <<"Trace is too long",
                                     tr.prefix \o s.current_phase.s>>)
                      ELSE s
                 p == Processed(tr.label, cut)
             IN  [w EXCEPT !.called = Calls(@, tr.label, cut),
                           !.trialdm =
                     Put(@, tr.prefix \o s.current_phase.s,
                         Series(IF Len(p) > 0
                                   /\ tr.prefix \in RebasedPrefixes
                                THEN Rebased(p, s.t_onset)
                                ELSE p))]

\* One pass of end_phase's loop.
end_phase_trace(s, tr) ==
    LET raw == s.acc[tr.field]
    IN  IF Skipped(tr.label) THEN s
        ELSE IF \E i \in 1..Len(raw) : ~FloatOk(raw[i])
        THEN Raise(s, "ValueError")
        ELSE IF s.current_phase = None THEN Raise(s, "TypeError")
        ELSE LET w == IF TooLong(Processed(tr.label, raw))
                      THEN Warn(s, <<"Trace is too long",
                                     tr.prefix \o s.current_phase.s>>)
                      ELSE s
             IN  [w EXCEPT !.called = Calls(@, tr.label, raw),
                           !.trialdm =
                     Put(@, tr.prefix \o s.current_phase.s,
                         Series(Stored(tr, raw, s.t_onset)))]

RECURSIVE end_phase_loop(_, _)
end_phase_loop(s, i) ==
    IF i > Len(TRACES) \/ s.exc # "" THEN s
    ELSE end_phase_loop(end_phase_trace(s, TRACES[i]), i + 1)

\* A variant that notes the onset of the phase as its offset.
end_phase_onset(s, toks) ==
    IF Len(toks) < 2 THEN Raise(s, "IndexError")
    ELSE LET s1 == [s EXCEPT !.trialdm =
                       Put(@, "t_offset_" \o safe_decode(s.current_phase),
                           s.t_onset)]
             s2 == end_phase_loop(s1, 1)
         IN  IF s2.exc # "" THEN s2
             ELSE [s2 EXCEPT !.current_phase = None]

end_phase(s, toks) ==
    IF Len(toks) < 2 THEN Raise(s, "IndexError")
    ELSE LET s1 == [s EXCEPT !.trialdm =
                       Put(@, "t_offset_" \o safe_decode(s.current_phase),
                           toks[2])]
             s2 == end_phase_loop(s1, 1)
         IN  IF s2.exc # "" THEN s2
             ELSE [s2 EXCEPT !.current_phase = None]

\* A table without the columns in keys.
Remove(d, keys) == [x \in (DOMAIN d) \ keys |-> d[x]]

\* SMIParser.end_phase: EyeLinkParser.end_phase, then the four fixation
\* lists of the phase named phase are deleted from the trial record.
SMIFixationColumns ==
    {"fixetlist_phase", "fixstlist_phase", "fixxlist_phase", "fixylist_phase"}

SMIParser_end_phase(s, toks) ==
    LET s1 == end_phase(s, toks)
    IN  IF s1.exc # "" THEN s1
        ELSE IF SMIFixationColumns \subseteq DOMAIN s1.trialdm
        THEN [s1 EXCEPT !.trialdm = Remove(@, SMIFixationColumns)]
        ELSE Raise(s1, "AttributeError")

\* self.end_phase(l)
self_end_phase(s, toks) ==
    IF cfg.parser = "smi" THEN SMIParser_end_phase(s, toks)
    ELSE end_phase(s, toks)

-----------------------------------------------------------------------------
\* start_phase, parse_sample, parse_fixation, parse_blink, parse_phase

\* self._phasefilter(name), for the one filter that is enumerated: it
\* keeps every phase but "b".
phasefilter(name) == name # "b"

\* The object after the call self._phasefilter(name), if a filter is set.
Filtered(s, name) ==
    IF cfg.phasefilter = "none" THEN s
    ELSE [s EXCEPT !.filtered = Append(@, <<name.s, s.current_phase>>)]

\* start_phase returns at once: a filter is set and turns the name down.
Rejects(name) == cfg.phasefilter # "none" /\ ~phasefilter(name.s)

\* A variant that keeps the accumulators of the phase before.
start_phase_keeps(s, toks) ==
    LET s1 == IF s.current_phase # None
              THEN self_end_phase(
                       Warn(s, <<"Phase started while phase was still ongoing",
                                 s.current_phase.s>>), toks)
              ELSE s
        s2 == Filtered(s1, toks[4])
    IN  IF s1.exc # "" THEN s1
        ELSE IF Rejects(toks[4]) THEN s2
        ELSE IF ("ptrace_" \o toks[4].s) \in DOMAIN s2.trialdm
        THEN Raise([s2 EXCEPT !.current_phase = toks[4]], "Exception")
        ELSE [s2 EXCEPT !.current_phase = toks[4],
                        !.t_onset = toks[2],
                        !.trialdm = Put(@, "t_onset_" \o toks[4].s, toks[2])]

\* A variant that opens the new phase without closing the open one.
start_phase_drops(s, toks) ==
    IF Rejects(toks[4]) THEN Filtered(s, toks[4])
    ELSE IF ("ptrace_" \o toks[4].s) \in DOMAIN s.trialdm
    THEN Raise([Filtered(s, toks[4]) EXCEPT !.current_phase = toks[4]],
               "Exception")
    ELSE [Filtered(s, toks[4]) EXCEPT !.current_phase = toks[4],
                   !.acc = EmptyAcc,
                   !.t_onset = toks[2],
                   !.trialdm = Put(@, "t_onset_" \o toks[4].s, toks[2])]

\* A variant that tests for a reused name before it closes the open phase.
start_phase_lenient(s, toks) ==
    LET twice == ("ptrace_" \o toks[4].s) \in DOMAIN s.trialdm
        s1 == IF s.current_phase # None
              THEN self_end_phase(
                       Warn(s, <<"Phase started while phase was still ongoing",
                                 s.current_phase.s>>), toks)
              ELSE s
        s2 == Filtered(s1, toks[4])
    IN  IF s1.exc # "" THEN s1
        ELSE IF Rejects(toks[4]) THEN s2
        ELSE IF twice
        THEN Raise([s2 EXCEPT !.current_phase = toks[4]], "Exception")
        ELSE [s2 EXCEPT !.current_phase = toks[4],
                        !.acc = EmptyAcc,
                        !.t_onset = toks[2],
                        !.trialdm = Put(@, "t_onset_" \o toks[4].s, toks[2])]

\* A variant that asks the filter before it closes the open phase.
start_phase_filter_first(s, toks) ==
    LET s0 == Filtered(s, toks[4])
        s1 == IF s0.current_phase # None
              THEN self_end_phase(
                       Warn(s0, <<"Phase started while phase was still ongoing",
                                  s0.current_phase.s>>), toks)
              ELSE s0
    IN  IF Rejects(toks[4]) THEN s0
        ELSE IF s1.exc # "" THEN s1
        ELSE IF ("ptrace_" \o toks[4].s) \in DOMAIN s1.trialdm
        THEN Raise([s1 EXCEPT !.current_phase = toks[4]], "Exception")
        ELSE [s1 EXCEPT !.current_phase = toks[4],
                        !.acc = EmptyAcc,
                        !.t_onset = toks[2],
                        !.trialdm = Put(@, "t_onset_" \o toks[4].s, toks[2])]

\* A variant that empties every list but the fixation lists.
start_phase_keeps_fixations(s, toks) ==
    LET s1 == IF s.current_phase # None
              THEN self_end_phase(
                       Warn(s, <<"Phase started while phase was still ongoing",
                                 s.current_phase.s>>), toks)
              ELSE s
        s2 == Filtered(s1, toks[4])
    IN  IF s1.exc # "" THEN s1
        ELSE IF Rejects(toks[4]) THEN s2
        ELSE IF ("ptrace_" \o toks[4].s) \in DOMAIN s2.trialdm
        THEN Raise([s2 EXCEPT !.current_phase = toks[4]], "Exception")
        ELSE [s2 EXCEPT !.current_phase = toks[4],
                        !.acc = [EmptyAcc EXCEPT
                                    !.fixxlist = s2.acc.fixxlist,
                                    !.fixylist = s2.acc.fixylist,
                                    !.fixstlist = s2.acc.fixstlist,
                                    !.fixetlist = s2.acc.fixetlist],
                        !.t_onset = toks[2],
                        !.trialdm = Put(@, "t_onset_" \o toks[4].s, toks[2])]

start_phase(s, toks) ==
    LET s1 == IF s.current_phase # None
              THEN self_end_phase(
                       Warn(s, <<"Phase started while phase was still ongoing",
                                 s.current_phase.s>>), toks)
              ELSE s
        s2 == Filtered(s1, toks[4])
    IN  IF s1.exc # "" THEN s1
        ELSE IF Rejects(toks[4]) THEN s2
        ELSE IF ("ptrace_" \o toks[4].s) \in DOMAIN s2.trialdm
        THEN Raise([s2 EXCEPT !.current_phase = toks[4]], "Exception")
        ELSE [s2 EXCEPT !.current_phase = toks[4],
                        !.acc = EmptyAcc,
                        !.t_onset = toks[2],
                        !.trialdm = Put(@, "t_onset_" \o toks[4].s, toks[2])]

\* A variant that does not note the time of the sample.
parse_sample_no_time(s, toks) ==
    [s EXCEPT !.acc.ptrace = Append(@, SamplePupil(toks)),
              !.acc.xtrace = Append(@, SampleX(toks)),
              !.acc.ytrace = Append(@, SampleY(toks))]

parse_sample(s, toks) ==
    [s EXCEPT !.acc.ttrace = Append(@, SampleT(toks)),
              !.acc.ptrace = Append(@, SamplePupil(toks)),
              !.acc.xtrace = Append(@, SampleX(toks)),
              !.acc.ytrace = Append(@, SampleY(toks))]

\* SMIParser.parse_sample
SMIParser_parse_sample(s, toks) ==
    IF SamplePupil(toks) = StrV("#") THEN s ELSE parse_sample(s, toks)

\* self.parse_sample(s)
self_parse_sample(s, toks) ==
    IF cfg.parser = "smi" THEN SMIParser_parse_sample(s, toks)
    ELSE parse_sample(s, toks)

\* A variant that also notes the pupil size of a fixation in ptrace.
parse_fixation_pupil(s, toks) ==
    [s EXCEPT !.acc.fixxlist = Append(@, toks[6]),
              !.acc.fixylist = Append(@, toks[7]),
              !.acc.fixstlist = Append(@, toks[3]),
              !.acc.fixetlist = Append(@, toks[4]),
              !.acc.ptrace = Append(@, toks[8])]

parse_fixation(s, toks) ==
    [s EXCEPT !.acc.fixxlist = Append(@, toks[6]),
              !.acc.fixylist = Append(@, toks[7]),
              !.acc.fixstlist = Append(@, toks[3]),
              !.acc.fixetlist = Append(@, toks[4])]

parse_blink(s, toks) ==
    [s EXCEPT !.acc.blinkstlist = Append(@, toks[3]),
              !.acc.blinketlist = Append(@, toks[4])]

StartPhaseShape ==
    <<MSG, Kind("int"), LitSet({StrV("start_phase"), StrV("phase")}),
      Kind("str")>>
EndPhaseShape ==
    <<MSG, Kind("int"), LitSet({StrV("end_phase"), StrV("stop_phase")}),
      Kind("str")>>

\* A variant in which an end_phase message closes the open phase whatever
\* name it gives.
parse_phase_anyname(s, toks) ==
    IF PyEq(toks[1], StrV("MSG")) /\ match(toks, StartPhaseShape)
    THEN start_phase(s, toks)
    ELSE IF PyEq(toks[1], StrV("MSG")) /\ match(toks, EndPhaseShape)
    THEN IF s.current_phase = None
         THEN Warn(s, <<"Trace was ended while current phase was",
                        toks[4].s>>)
         ELSE self_end_phase(s, toks)
    ELSE IF s.current_phase = None THEN s
    ELSE IF sample_ok(toks) THEN self_parse_sample(s, toks)
    ELSE LET s1 == IF fixation_ok(toks) THEN parse_fixation(s, toks) ELSE s
         IN  IF blink_ok(toks) THEN parse_blink(s1, toks) ELSE s1

parse_phase(s, toks) ==
    IF PyEq(toks[1], StrV("MSG")) /\ match(toks, StartPhaseShape)
    THEN start_phase(s, toks)
    ELSE IF PyEq(toks[1], StrV("MSG")) /\ match(toks, EndPhaseShape)
    THEN IF s.current_phase # toks[4]
         THEN Warn(s, <<"Trace was ended while current phase was",
                        toks[4].s>>)
         ELSE self_end_phase(s, toks)
    ELSE IF s.current_phase = None THEN s
    ELSE IF sample_ok(toks) THEN self_parse_sample(s, toks)
    ELSE LET s1 == IF fixation_ok(toks) THEN parse_fixation(s, toks) ELSE s
         IN  IF blink_ok(toks) THEN parse_blink(s1, toks) ELSE s1

-----------------------------------------------------------------------------
\* parse_error, parse_variable, is_start_trial, is_end_trial, is_message

parse_error(toks) == Len(toks) > 2 /\ PyEq(toks[3], StrV("ERROR"))

VarShape == <<MSG, Kind("int"), Lit(StrV("var")), Kind("str"), ANY_VALUES>>

\* A variant that keeps the first value of a variable.
parse_variable_keeps(s, toks) ==
    IF ~match(toks, VarShape) THEN s
    ELSE IF toks[4].s \in DOMAIN s.trialdm
    THEN Warn(s, <<"Variable defined twice in one trial", toks[4].s>>)
    ELSE [s EXCEPT !.trialdm = Put(@, toks[4].s, StrV(JoinFrom(toks, 5)))]

parse_variable(s, toks) ==
    IF ~match(toks, VarShape) THEN s
    ELSE LET var == toks[4].s
             val == JoinFrom(toks, 5)
             s1 == IF var \in DOMAIN s.trialdm
                   THEN Warn(s, <<"Variable defined twice in one trial", var>>)
                   ELSE s
         IN  [s1 EXCEPT !.trialdm = Put(@, var, StrV(val))]

StartTrialIdShape == <<MSG, Kind("int"), Lit(StrV("start_trial")), ANY_VALUE>>
StartTrialShape == <<MSG, Kind("int"), Lit(StrV("start_trial"))>>
EndTrialShape ==
    <<MSG, Kind("int"), LitSet({StrV("end_trial"), StrV("stop_trial")})>>

\* A variant that knows only the shape with an id.
is_start_trial_ret_idonly(toks) == match(toks, StartTrialIdShape)

\* is_start_trial(l) returns True
is_start_trial_ret(toks) ==
    match(toks, StartTrialIdShape) \/ match(toks, StartTrialShape)

\* the parser after is_start_trial(l)
is_start_trial(s, toks) ==
    IF match(toks, StartTrialIdShape)
    THEN [s EXCEPT !.trialid = toks[4], !.current_phase = None]
    ELSE IF match(toks, StartTrialShape)
    THEN IF s.trialid = None
         THEN [s EXCEPT !.trialid = IntV(0), !.current_phase = None]
         ELSE IF IsStr(s.trialid) THEN Raise(s, "TypeError")
         ELSE [s EXCEPT !.trialid.n = @ + 1, !.current_phase = None]
    ELSE s

\* is_end_trial(l) returns True
is_end_trial_ret(toks) == match(toks, EndTrialShape)

\* the parser after is_end_trial(l)
is_end_trial(s, toks) ==
    IF match(toks, EndTrialShape) THEN [s EXCEPT !.trialid = None] ELSE s

\* line.startswith(u'MSG'), for a line that starts with its first token
is_message(toks) == Len(toks) > 0 /\ PyEq(toks[1], StrV("MSG"))

\* redo_line(line); the line is noted as the tokens split makes of it.
redo_line(s, line) ==
    [s EXCEPT !.linestack = Append(@, line), !.pushed = Append(@, line)]

\* split(str(e)) for a token e of a line: an int or a str is read back as it
\* was; the text of a float with an integral value, say 1.0, is read back
\* as that float, or as the int 1 by fastnumbers; nan is read back as a str.
resplit(tok) ==
    IF IsNaN(tok) THEN StrV("nan")
    ELSE IF tok.k = "float" /\ cfg.fastnumbers THEN IntV(tok.n)
    ELSE tok

\* SMIParser: the shape of a message, 12529411046 MSG 1 # Message: a.jpg
SMIMessageShape == <<Kind("int"), MSG, Kind("int"), ANY_VALUES>>

\* SMIParser.is_message: u'MSG' in line, for a line that has MSG only as a
\* token of its own
SMIParser_is_message(toks) == \E i \in 1..Len(toks) : toks[i] = StrV("MSG")

\* SMIParser.is_start_trial(l) returns True
SMIParser_is_start_trial_ret(toks) == match(toks, SMIMessageShape)

\* the parser after SMIParser.is_start_trial(l); u' '.join(l[5:]) raises
\* TypeError for a token that is not a str
SMIParser_is_start_trial(s, toks) ==
    IF ~match(toks, SMIMessageShape) THEN s
    ELSE LET s1 == [s EXCEPT !.trialid = IF s.trialid = None THEN IntV(0)
                                         ELSE IntV(s.trialid.n + 1)]
         IN  IF \E i \in 6..Len(toks) : ~IsStr(toks[i])
             THEN Raise(s1, "TypeError")
             ELSE [s1 EXCEPT !.message = StrV(JoinFrom(toks, 6)),
                             !.current_phase = None]

\* SMIParser.is_end_trial(l) returns True
SMIParser_is_end_trial_ret(toks) == match(toks, SMIMessageShape)

\* the parser after SMIParser.is_end_trial(l)
SMIParser_is_end_trial(s, toks) ==
    IF match(toks, SMIMessageShape)
    THEN redo_line(s, [i \in 1..Len(toks) |-> resplit(toks[i])])
    ELSE s

\* GazePointParser.is_start_trial(l) returns True
GazePointParser_is_start_trial_ret(s, toks) ==
    /\ is_start_trial_ret(toks)
    /\ ~PyEq(s.trialid, is_start_trial(s, toks).trialid)

\* self.is_message(line); GazePointParser takes the lines of 42 fields or
\* more, which are those its split turns into lines that start with MSG
self_is_message(toks) ==
    IF cfg.parser = "smi" THEN SMIParser_is_message(toks)
    ELSE is_message(toks)

\* self.is_start_trial(l) returns True, called on the parser s
self_is_start_trial_ret(s, toks) ==
    IF cfg.parser = "smi" THEN SMIParser_is_start_trial_ret(toks)
    ELSE IF cfg.parser = "gazepoint"
    THEN GazePointParser_is_start_trial_ret(s, toks)
    ELSE is_start_trial_ret(toks)

\* the parser after self.is_start_trial(l)
self_is_start_trial(s, toks) ==
    IF cfg.parser = "smi" THEN SMIParser_is_start_trial(s, toks)
    ELSE is_start_trial(s, toks)

\* self.is_end_trial(l) returns True
self_is_end_trial_ret(toks) ==
    IF cfg.parser = "smi" THEN SMIParser_is_end_trial_ret(toks)
    ELSE is_end_trial_ret(toks)

\* the parser after self.is_end_trial(l)
self_is_end_trial(s, toks) ==
    IF cfg.parser = "smi" THEN SMIParser_is_end_trial(s, toks)
    ELSE is_end_trial(s, toks)

\* SMIParser.on_start_trial
SMIParser_on_start_trial(s) ==
    start_phase([s EXCEPT !.trialdm = Put(@, "message", s.message)],
                <<StrV("MSG"), IntV(0), StrV("start_phase"), StrV("phase")>>)

\* self.on_start_trial()
self_on_start_trial(s) ==
    IF cfg.parser = "smi" THEN SMIParser_on_start_trial(s) ELSE s

-----------------------------------------------------------------------------
\* parse_trial

\* self.path
Path == StrV("data/f.asc")

\* parse_trial up to its loop
parse_trial_begin(s) ==
    LET s1 == [s EXCEPT !.trialdm =
                   [c \in {"path", "trialid", "data_error"} |->
                       IF c = "path" THEN Path
                       ELSE IF c = "trialid" THEN s.trialid
                       ELSE IntV(0)]]
        s2 == IF cfg.trialphase # None
              THEN parse_phase(s1, <<StrV("MSG"), IntV(0), StrV("start_phase"),
                                     cfg.trialphase>>)
              ELSE s1
    IN  IF s2.exc # "" THEN s2 ELSE self_on_start_trial(s2)

\* A variant in which only an end_trial message ends parse_trial's loop.
parse_trial_breaks_endonly(toks) ==
    /\ toks # <<>>
    /\ ~parse_error(toks)
    /\ self_is_message(toks) /\ self_is_end_trial_ret(toks)

\* the line ends parse_trial's loop
parse_trial_breaks(toks) ==
    /\ toks # <<>>
    /\ \/ parse_error(toks)
       \/ self_is_message(toks) /\ self_is_end_trial_ret(toks)

\* one pass of parse_trial's loop
\* A variant in which a start_trial message read in a trial sets the trial
\* id as it does between trials.
parse_trial_line_restart(s, toks) ==
    IF toks = <<>> THEN Warn(s, <<"Empty line", "">>)
    ELSE IF parse_error(toks)
    THEN Warn(Warn([s EXCEPT !.trialdm = Put(@, "data_error", IntV(1))],
                   <<"data error", "">>),
              <<"ending trial due to data error", "">>)
    ELSE IF self_is_message(toks) /\ self_is_end_trial_ret(toks)
    THEN self_is_end_trial(s, toks)
    ELSE IF self_is_message(toks) /\ self_is_start_trial_ret(s, toks)
    THEN self_is_start_trial(s, toks)
    ELSE LET s1 == IF self_is_message(toks) THEN parse_variable(s, toks)
                   ELSE s
         IN  parse_phase(s1, toks)

parse_trial_line(s, toks) ==
    IF toks = <<>> THEN Warn(s, <<"Empty line", "">>)
    ELSE IF parse_error(toks)
    THEN Warn(Warn([s EXCEPT !.trialdm = Put(@, "data_error", IntV(1))],
                   <<"data error", "">>),
              <<"ending trial due to data error", "">>)
    ELSE IF self_is_message(toks) /\ self_is_end_trial_ret(toks)
    THEN self_is_end_trial(s, toks)
    ELSE LET s1 == IF self_is_message(toks) THEN parse_variable(s, toks)
                   ELSE s
         IN  parse_phase(s1, toks)

\* parse_trial after its loop; bound says whether l was ever bound
\* A variant that warns of the open phase and leaves it open.
parse_trial_end_open(s, toks, bound) ==
    IF s.exc # "" \/ s.current_phase = None THEN s
    ELSE Warn(s, <<"Trial ended while phase was still ongoing",
                   s.current_phase.s>>)

parse_trial_end(s, toks, bound) ==
    IF s.exc # "" \/ s.current_phase = None THEN s
    ELSE LET s1 == Warn(s, <<"Trial ended while phase was still ongoing",
                             s.current_phase.s>>)
         IN  IF ~bound THEN Raise(s1, "UnboundLocalError")
             ELSE self_end_phase(s1, toks)

-----------------------------------------------------------------------------
\* __init__: the files of a folder, parsed one after the other or by a pool

\* Most trials in a file of the folder.
MaxTrialsPerFile == 2

False == [k |-> "bool", s |-> "", n |-> 0]
\* Python's truth value of a keyword argument.
Truthy(x) ==
    IF x.k = "none" THEN FALSE
    ELSE IF x.k = "str" THEN x.s # ""
    ELSE x.n # 0

\* The names a file of the folder can have before its extension, in sorted
\* order.
Names == <<"a", "b", "c">>
Rank(name) == CHOOSE i \in 1..Len(Names) : Names[i] = name

\* What a file of the folder is apart from its name: an extension and the
\* number of trials that parse_file finds in the file.
Contents ==
    [ext : {".asc", ".ASC"}, trials : 0..MaxTrialsPerFile]
    \cup [ext : {".txt"}, trials : {1}]
\* os.listdir(folder): files of different names.
Folders ==
    UNION {{{[name |-> n, ext |-> g[n].ext, trials |-> g[n].trials] : n \in S} :
              g \in [S -> Contents]} :
           S \in SUBSET {Names[i] : i \in 1..Len(Names)}}

\* The default of the keyword argument ext.
Ext == {".asc", ".edf", ".tar.xz"}
\* str.lower, on the extensions above
lower(e) == IF e = ".ASC" THEN ".asc" ELSE IF e = ".EDF" THEN ".edf" ELSE e

\* The files that pass the filter on the extension.
Listed(d) == {f \in d : \E e \in Ext : lower(f.ext) = lower(e)}

RECURSIVE sorted(_)
\* sorted(...): the files of d, by name
sorted(d) ==
    IF d = {} THEN <<>>
    ELSE LET first == CHOOSE f \in d :
                          \A g \in d : Rank(f.name) <= Rank(g.name)
         IN  <<first>> \o sorted(d \ {first})

\* self.parse_file(fname): the file record, one row per trial.
parse_file_of(f) ==
    [i \in 1..f.trials |-> [path |-> f.name \o f.ext, row |-> i]]

\* A path: root is the folder of the data or the folder of temporary files
\* (tempfile.gettempdir()), sub a folder of that folder or "", name the
\* name of the file.  The path of a file of the data folder:
\* os.path.join(folder, fname)
FolderPath(f) == [root |-> "data", sub |-> "", name |-> f.name \o f.ext]

\* self._temp_path(path); tempfile.gettempprefix() is "tmp"
_temp_path(name) == [root |-> "tmp", sub |-> "", name |-> "tmp" \o name]

\* new_path = os.path.join(self._temp_path(ti.name), ti.name)
ExtractedPath(name) ==
    [root |-> "tmp", sub |-> _temp_path(name).name, name |-> name]

\* new_path = self._temp_path(path) + u'.asc'
ConvertedPath(path) == [_temp_path(path.name) EXCEPT !.name = @ \o ".asc"]

\* What convert_file(path) yields for a file f of the folder: the path
\* itself, or the paths that the members of an archive are extracted to;
\* temp says which.  An archive holds no archive.
convert_file(f) ==
    IF lower(f.ext) = ".tar.xz"
    THEN [i \in 1..Len(f.members) |->
            [name |-> f.members[i].name, ext |-> f.members[i].ext,
             trials |-> f.members[i].trials,
             path |-> ExtractedPath(f.members[i].name \o f.members[i].ext),
             temp |-> TRUE]]
    ELSE << [name |-> f.name, ext |-> f.ext, trials |-> f.trials,
             path |-> FolderPath(f), temp |-> FALSE] >>

RECURSIVE chain(_)
\* itertools.chain(*(self.convert_file(...) for fname in ...)), as a list
chain(files) ==
    IF files = <<>> THEN <<>>
    ELSE convert_file(Head(files)) \o chain(Tail(files))

\* The files and the registry, as one record w, so that a method is an
\* operator from the state before the call to the state after it.
World == [fs |-> fs, temp_files |-> temp_files, oslog |-> oslog]

\* list.remove(x): the list without the first x
ListRemove(seq, x) ==
    LET i == CHOOSE i \in 1..Len(seq) :
                 seq[i] = x /\ \A j \in 1..(i - 1) : seq[j] # x
    IN  SubSeq(seq, 1, i - 1) \o SubSeq(seq, i + 1, Len(seq))

_register_temp_file(w, path) ==
    [w EXCEPT !.temp_files = Append(@, path),
              !.oslog = Append(@, <<"register", path>>)]

\* A variant that removes the file whether it is registered or not.
_delete_temp_file_any(w, path) ==
    [w EXCEPT !.fs = @ \ {path},
              !.oslog = Append(@, <<"remove", path>>),
              !.temp_files = IF \E i \in 1..Len(@) : @[i] = path
                             THEN ListRemove(@, path) ELSE @]

_delete_temp_file(w, path) ==
    IF \A i \in 1..Len(w.temp_files) : w.temp_files[i] # path THEN w
    ELSE [w EXCEPT !.fs = @ \ {path},
                   !.oslog = Append(@, <<"remove", path>>),
                   !.temp_files = ListRemove(@, path)]

\* convert_file from self._register_temp_file(new_path) to tf.extract(...),
\* for a member that item stands for
extract(w, item) ==
    LET w1 == _register_temp_file(w, item.path)
    IN  [w1 EXCEPT !.fs = @ \cup {item.path},
                   !.oslog = Append(@, <<"extract", item.path>>)]

RECURSIVE extract_all(_, _)
\* list(input_files): every member of every archive is extracted
extract_all(w, items) ==
    IF items = <<>> THEN w
    ELSE extract_all(IF Head(items).temp THEN extract(w, Head(items)) ELSE w,
                     Tail(items))

\* what edf2asc(path) returns
edf2asc_ret(item) ==
    IF lower(item.ext) # ".edf" THEN item.path ELSE ConvertedPath(item.path)

\* the files and the registry after edf2asc(path); the converter writes
\* new_path
edf2asc(w, item) ==
    IF lower(item.ext) # ".edf" THEN w
    ELSE LET new_path == ConvertedPath(item.path)
             w1 == [w EXCEPT !.fs = @ \cup {new_path},
                             !.oslog = Append(@, <<"edf2asc", item.path,
                                                   new_path>>)]
         IN  _delete_temp_file(_register_temp_file(w1, new_path), item.path)

\* the files and the registry after parse_file(path)
parse_file_temp(w, item) ==
    _delete_temp_file(edf2asc(w, item), edf2asc_ret(item))

\* The keyword arguments of __init__ that __init__ itself reads.  A pool is
\* only asked for without a trace processor.
Keywords ==
    {k \in [downsample : {None, IntV(2)},
            traceprocessor : {"none", "custom"},
            multiprocess : {False, None, IntV(1), IntV(2), IntV(4)}] :
        Truthy(k.multiprocess) =>
            (k.downsample = None /\ k.traceprocessor = "none")}

DefaultKeywords ==
    [downsample |-> None, traceprocessor |-> "none", multiprocess |-> False]

\* defaulttraceprocessor(downsample=downsample)
defaulttraceprocessor(downsample) ==
    [kind |-> "default", blinkreconstruct |-> FALSE,
     downsample |-> downsample]

\* A variant that lets the custom trace processor win over downsample.
init_traceprocessor_custom(k) ==
    IF k.downsample # None /\ k.traceprocessor = "none"
    THEN [exc |-> "", tp |-> defaulttraceprocessor(k.downsample)]
    ELSE [exc |-> "",
          tp |-> [kind |-> k.traceprocessor, blinkreconstruct |-> FALSE,
                  downsample |-> None]]

\* __init__ up to self._traceprocessor = traceprocessor
init_traceprocessor(k) ==
    IF k.downsample # None
    THEN IF k.traceprocessor # "none"
         THEN [exc |-> "ValueError",
               tp |-> [kind |-> "none", blinkreconstruct |-> FALSE,
                       downsample |-> None]]
         ELSE [exc |-> "", tp |-> defaulttraceprocessor(k.downsample)]
    ELSE [exc |-> "",
          tp |-> [kind |-> k.traceprocessor, blinkreconstruct |-> FALSE,
                  downsample |-> None]]

RECURSIVE Stack(_, _)
\* dm <<= filedm, for the file records of a list: the rows of each, below
\* the rows before.
Stack(rows, records) ==
    IF records = <<>> THEN rows
    ELSE Stack(rows \o Head(records), Tail(records))

\* A variant of p.map that returns the results in the order they got done.
pool_map_unordered(res, done) == [i \in 1..Len(done) |-> res[done[i]]]

\* p.map(self.parse_file, input_files) returns: the results, in the order
\* of input_files.
pool_map(res, done) == [i \in 1..Len(done) |-> res[i]]

\* No __init__ is modelled: one call of parse_file is all there is.
OneCall ==
    /\ kw = DefaultKeywords
    /\ listdir = {}
    /\ ipc = "parse_file"
    /\ iexc = ""
    /\ listed = FALSE
    /\ self_traceprocessor = init_traceprocessor(DefaultKeywords).tp
    /\ input_files = <<>>
    /\ nparsed = 0
    /\ pool = 0
    /\ tasks = <<>>
    /\ completed = <<>>
    /\ results = <<>>
    /\ filedms = <<>>
    /\ dm = <<>>
    /\ fs = {}
    /\ temp_files = <<>>
    /\ oslog = <<>>
    /\ child_temp_files = <<>>

\* __init__ from its first line to the start of its loop or of p.map.
InitBegin ==
    /\ ipc = "start"
    /\ LET r == init_traceprocessor(kw)
           files == chain(sorted(Listed(listdir)))
           w == IF Truthy(kw.multiprocess) THEN extract_all(World, files)
                ELSE World
       IN  IF r.exc # ""
           THEN /\ iexc' = r.exc
                /\ ipc' = "raised"
                /\ UNCHANGED <<listed, self_traceprocessor, input_files,
                               pool, tasks, fs, temp_files, oslog>>
           ELSE /\ self_traceprocessor' = r.tp
                /\ listed' = TRUE
                /\ input_files' = files
                /\ pool' = IF Truthy(kw.multiprocess)
                           THEN kw.multiprocess.n ELSE 0
                /\ tasks' = IF Truthy(kw.multiprocess)
                            THEN [i \in 1..Len(files) |-> "queued"]
                            ELSE <<>>
                /\ ipc' = IF Truthy(kw.multiprocess) THEN "map" ELSE "loop"
                /\ fs' = w.fs
                /\ temp_files' = w.temp_files
                /\ oslog' = w.oslog
                /\ UNCHANGED iexc
    /\ UNCHANGED <<kw, listdir, nparsed, completed, results, filedms, dm,
                   child_temp_files, filevars, matchvars>>

\* One pass of the for loop: self.dm <<= self.parse_file(fname)
ParseNextFile ==
    /\ ipc = "loop"
    /\ nparsed < Len(input_files)
    /\ nparsed' = nparsed + 1
    /\ dm' = Stack(dm, <<parse_file_of(input_files[nparsed + 1])>>)
    /\ LET item == input_files[nparsed + 1]
           w == parse_file_temp(IF item.temp THEN extract(World, item)
                                ELSE World, item)
       IN  /\ fs' = w.fs
           /\ temp_files' = w.temp_files
           /\ oslog' = w.oslog
    /\ UNCHANGED <<kw, listdir, ipc, iexc, listed, self_traceprocessor,
                   input_files, pool, tasks, completed, results, filedms,
                   child_temp_files, filevars, matchvars>>

\* A process of the pool that has no task takes the first task of the queue.
WorkerTakes ==
    /\ ipc = "map"
    /\ Cardinality({i \in 1..Len(tasks) : tasks[i] = "running"}) < pool
    /\ \E i \in 1..Len(tasks) :
        /\ tasks[i] = "queued"
        /\ \A j \in 1..(i - 1) : tasks[j] # "queued"
        /\ tasks' = [tasks EXCEPT ![i] = "running"]
    /\ UNCHANGED <<kw, listdir, ipc, iexc, listed, self_traceprocessor,
                   input_files, nparsed, pool, completed, results, filedms,
                   dm, filevars, matchvars, tempvars>>

\* A process of the pool returns from parse_file.
WorkerFinishes ==
    /\ ipc = "map"
    /\ \E i \in 1..Len(tasks) :
        /\ tasks[i] = "running"
        /\ tasks' = [tasks EXCEPT ![i] = "done"]
        /\ completed' = Append(completed, i)
        /\ results' = [j \in (DOMAIN results) \cup {i} |->
                          IF j = i THEN parse_file_of(input_files[i])
                          ELSE results[j]]
        /\ LET w == parse_file_temp(World, input_files[i])
           IN  /\ fs' = w.fs
               /\ oslog' = w.oslog
               /\ child_temp_files' =
                      [j \in (DOMAIN child_temp_files) \cup {i} |->
                          IF j = i THEN w.temp_files
                          ELSE child_temp_files[j]]
    /\ UNCHANGED <<kw, listdir, ipc, iexc, listed, self_traceprocessor,
                   input_files, nparsed, pool, filedms, dm, temp_files,
                   filevars, matchvars>>

\* p.map returns and the pool is left.
MapReturns ==
    /\ ipc = "map"
    /\ \A i \in 1..Len(tasks) : tasks[i] = "done"
    /\ filedms' = pool_map(results, completed)
    /\ ipc' = "pop"
    /\ UNCHANGED <<kw, listdir, iexc, listed, self_traceprocessor,
                   input_files, nparsed, pool, tasks, completed, results, dm,
                   filevars, matchvars, tempvars>>

\* One pass of the while loop: self.dm <<= filedms.pop()
PopFiledm ==
    /\ ipc = "pop"
    /\ filedms # <<>>
    /\ dm' = Stack(dm, <<filedms[Len(filedms)]>>)
    /\ filedms' = SubSeq(filedms, 1, Len(filedms) - 1)
    /\ UNCHANGED <<kw, listdir, ipc, iexc, listed, self_traceprocessor,
                   input_files, nparsed, pool, tasks, completed, results,
                   filevars, matchvars, tempvars>>

\* The loop is over; __init__ returns.
InitReturns ==
    /\ \/ ipc = "loop" /\ nparsed = Len(input_files)
       \/ ipc = "pop" /\ filedms = <<>>
    /\ ipc' = "done"
    /\ UNCHANGED <<kw, listdir, iexc, listed, self_traceprocessor,
                   input_files, nparsed, pool, tasks, completed, results,
                   filedms, dm, filevars, matchvars, tempvars>>

NextInit ==
    \/ InitBegin
    \/ ParseNextFile
    \/ WorkerTakes
    \/ WorkerFinishes
    \/ MapReturns
    \/ PopFiledm
    \/ InitReturns

-----------------------------------------------------------------------------
\* parse_file, one line of the file at a time

\* The keyword arguments of __init__ that parse_file reads; fastnumbers:
\* whether the module fastnumbers could be imported; parser: the class of
\* the parser, "eyelink" for EyeLinkParser, "smi" for SMIParser,
\* "gazepoint" for GazePointParser, "pushback" for a subclass of
\* EyeLinkParser whose classifiers call redo_line.
Configs ==
    [pupil_size : BOOLEAN, gaze_pos : BOOLEAN, time_trace : BOOLEAN,
     maxtracelen : {None, IntV(1), IntV(2)},
     traceprocessor : {"none", "downsample"},
     phasefilter : {"none", "filter"},
     trialphase : {None, StrV("a")},
     fastnumbers : BOOLEAN,
     parser : {"eyelink"}]

\* The default keyword arguments of __init__.
DefaultConfig ==
    [pupil_size |-> TRUE, gaze_pos |-> TRUE, time_trace |-> TRUE,
     maxtracelen |-> None, traceprocessor |-> "none",
     phasefilter |-> "none", trialphase |-> None, fastnumbers |-> FALSE,
     parser |-> "eyelink"]

\* No table is read: one without columns and rows stands for it.
NoCsv == [columns |-> {}, rows |-> <<>>]

\* parse_file up to its loop, for a file of the lines in lines parsed by a
\* parser built with one of the configurations in configs, with one of the
\* tables in csvs next to the file.
InitFile(configs, lines, n, csvs) ==
    /\ cfg \in configs
    /\ inputs = lines
    /\ maxlines = n
    /\ f_read = <<>>
    /\ pc = "file"
    /\ exc = ""
    /\ trialid = None
    /\ current_phase = None
    /\ acc = EmptyAcc
    /\ t_onset = IntV(0)
    /\ trialdm = EmptyTable
    /\ filedm = <<>>
    /\ l = <<>>
    /\ l_bound = FALSE
    /\ ntrial = 0
    /\ warned = <<>>
    /\ called = <<>>
    /\ filtered = <<>>
    /\ linestack = <<>>
    /\ message = None
    /\ fresh = FALSE
    /\ eof = FALSE
    /\ pushed = <<>>
    /\ redone = <<>>
    /\ csv_dm \in csvs
    /\ OneCall
    /\ NoMatch

\* The same, for a parser that reads no table next to the file.
InitWith(configs, lines, n) == InitFile(configs, lines, n, {NoCsv})

\* The parser's fields after a step that leaves it as s.
Becomes(s) ==
    \E t \in {s} :
        /\ exc' = t.exc
        /\ trialid' = t.trialid
        /\ current_phase' = t.current_phase
        /\ acc' = t.acc
        /\ t_onset' = t.t_onset
        /\ trialdm' = t.trialdm
        /\ warned' = t.warned
        /\ called' = t.called
        /\ filtered' = t.filtered
        /\ linestack' = t.linestack
        /\ message' = t.message
        /\ pushed' = t.pushed

\* Most lines that the classifiers of the parser "pushback" push back
\* while one line is handled, and in all.
MaxPushPerLine == 2
MaxPushes == 3

\* The k-th line the parser "pushback" pushes back: no message, no event.
RedoLine(k) == <<StrV("REDO"), IntV(k)>>

\* How many lines the classifiers push back while one line is handled.
Pushes ==
    IF cfg.parser = "pushback"
    THEN {n \in 0..MaxPushPerLine : Len(pushed) + n <= MaxPushes}
    ELSE {0}

RECURSIVE PushBack(_, _)
\* The parser after its classifiers pushed back n lines.
PushBack(s, n) ==
    IF n = 0 THEN s
    ELSE PushBack(redo_line(s, RedoLine(Len(s.pushed) + 1)), n - 1)

\* stacked_file yields from self._linestack next: only a generator that has
\* yielded a line of the file looks at the stack.
StackFirst(started) == started /\ linestack # <<>>

\* The lines stacked_file may yield next: the top of the stack, or any line
\* the file may hold if it has one more.
NextLines(started) ==
    IF StackFirst(started) THEN {linestack[Len(linestack)]}
    ELSE IF eof \/ Len(f_read) >= maxlines THEN {}
    ELSE inputs

\* The parser after stacked_file yielded: self._linestack.pop()
Yielded(started) ==
    IF StackFirst(started)
    THEN [Self EXCEPT !.linestack = SubSeq(@, 1, Len(@) - 1)]
    ELSE Self

\* The file and the log of the stack after stacked_file yielded line.
Yields(started, line) ==
    IF StackFirst(started)
    THEN /\ redone' = Append(redone, line)
         /\ f_read' = f_read
    ELSE /\ redone' = redone
         /\ f_read' = Append(f_read, line)

\* A variant that leaves the file record as it is when the table does not
\* fit, and raises nothing.
GazePointParser_on_end_file_silent(fd) ==
    IF Len(csv_dm.rows) # Len(fd)
    THEN [exc |-> "", filedm |-> fd]
    ELSE [exc |-> "",
          filedm |-> [i \in 1..Len(fd) |->
                        [c \in (DOMAIN fd[i]) \cup csv_dm.columns |->
                            IF c \in csv_dm.columns THEN csv_dm.rows[i][c]
                            ELSE fd[i][c]]]]

\* GazePointParser.on_end_file: the columns of csv_dm are assigned to the
\* file record fd, row by row.
GazePointParser_on_end_file(fd) ==
    IF Len(csv_dm.rows) # Len(fd)
    THEN [exc |-> "Exception", filedm |-> fd]
    ELSE [exc |-> "",
          filedm |-> [i \in 1..Len(fd) |->
                        [c \in (DOMAIN fd[i]) \cup csv_dm.columns |->
                            IF c \in csv_dm.columns THEN csv_dm.rows[i][c]
                            ELSE fd[i][c]]]]

\* self.on_end_file()
self_on_end_file(fd) ==
    IF cfg.parser = "gazepoint" THEN GazePointParser_on_end_file(fd)
    ELSE [exc |-> "", filedm |-> fd]

\* parse_file's loop reads a line.
ReadFileLine ==
    /\ pc = "file"
    /\ \E line \in NextLines(TRUE), n \in Pushes :
        /\ Yields(TRUE, line)
        /\ IF self_is_message(line)
           THEN \E s0 \in {PushBack(Yielded(TRUE), n)} :
                \E s1 \in {self_is_start_trial(s0, line)},
                   starts \in {self_is_start_trial_ret(s0, line)} :
                \E s2 \in {IF starts /\ s1.exc = ""
                            THEN parse_trial_begin(s1) ELSE s1} :
                    /\ Becomes(s2)
                    /\ ntrial' = IF starts /\ s1.exc = "" THEN ntrial + 1
                                 ELSE ntrial
                    /\ pc' = IF s2.exc # "" THEN "raised"
                             ELSE IF starts THEN "trial"
                             ELSE "file"
                    /\ l' = IF starts THEN <<>> ELSE l
                    /\ l_bound' = IF starts THEN FALSE ELSE l_bound
                    /\ fresh' = IF starts THEN TRUE ELSE fresh
           ELSE /\ Becomes(PushBack(Yielded(TRUE), n))
                /\ UNCHANGED <<ntrial, pc, l, l_bound, fresh>>
    /\ UNCHANGED <<cfg, inputs, maxlines, filedm, eof, csv_dm, initvars,
                   matchvars, tempvars>>

\* parse_trial's loop reads a line; a line that ends the loop also ends
\* parse_trial, and parse_file appends the trial record.
ReadTrialLine ==
    /\ pc = "trial"
    /\ \E line \in NextLines(~fresh), n \in Pushes :
        /\ Yields(~fresh, line)
        /\ l' = line
        /\ l_bound' = TRUE
        /\ fresh' = FALSE
        /\ \E s1 \in {parse_trial_line(PushBack(Yielded(~fresh), n), line)} :
           \E s2 \in {IF parse_trial_breaks(line)
                       THEN parse_trial_end(s1, line, TRUE)
                       ELSE s1} :
               /\ Becomes(s2)
               /\ pc' = IF s2.exc # "" THEN "raised"
                        ELSE IF parse_trial_breaks(line) THEN "file"
                        ELSE "trial"
               /\ filedm' = IF s2.exc = "" /\ parse_trial_breaks(line)
                            THEN Append(filedm, s2.trialdm)
                            ELSE filedm
    /\ UNCHANGED <<cfg, inputs, maxlines, ntrial, eof, csv_dm, initvars,
                   matchvars, tempvars>>

\* The file ends: an open trial is finalized; parse_file's loop goes on if
\* lines are left on the stack, else parse_file calls on_end_file and
\* returns.
EndOfFile ==
    /\ pc \in {"file", "trial"}
    /\ ~StackFirst(pc = "file" \/ ~fresh)
    /\ eof' = TRUE
    /\ \E s1 \in {IF pc = "trial" THEN parse_trial_end(Self, l, l_bound)
                    ELSE Self} :
       \E fd \in {IF pc = "trial" /\ s1.exc = ""
                    THEN Append(filedm, s1.trialdm)
                    ELSE filedm} :
       \E r \in {self_on_end_file(fd)} :
           IF s1.exc # ""
           THEN /\ Becomes(s1)
                /\ pc' = "raised"
                /\ filedm' = filedm
           ELSE IF pc = "trial" /\ linestack # <<>>
           THEN /\ Becomes(s1)
                /\ pc' = "file"
                /\ filedm' = fd
           ELSE /\ Becomes(Raise(s1, r.exc))
                /\ pc' = IF r.exc # "" THEN "raised" ELSE "done"
                /\ filedm' = r.filedm
    /\ UNCHANGED <<cfg, inputs, maxlines, f_read, l, l_bound, ntrial, fresh,
                   redone, csv_dm, initvars, matchvars, tempvars>>

Next == ReadFileLine \/ ReadTrialLine \/ EndOfFile

-----------------------------------------------------------------------------
\* Lines of a file

L_start == <<StrV("MSG"), IntV(10), StrV("start_trial")>>
L_start5 == <<StrV("MSG"), IntV(10), StrV("start_trial"), IntV(5)>>
L_end == <<StrV("MSG"), IntV(90), StrV("end_trial")>>
L_stop == <<StrV("MSG"), IntV(90), StrV("stop_trial")>>
L_error == <<StrV("MSG"), IntV(50), StrV("ERROR"), StrV("lost")>>
L_sample ==
    <<IntV(40), FloatV(50), FloatV(60), FloatV(900), StrV("...")>>
L_sample2 ==
    <<IntV(50), FloatV(51), FloatV(61), FloatV(905), StrV("...")>>
L_missing == <<IntV(50), StrV("."), StrV("."), FloatV(0), StrV("...")>>
L_nopupil == <<IntV(60), FloatV(52), FloatV(62), StrV("."), StrV("...")>>
L_short == <<IntV(40), FloatV(50), FloatV(60), FloatV(900)>>
L_fix ==
    <<StrV("EFIX"), StrV("R"), IntV(40), IntV(60), IntV(21), FloatV(50),
      FloatV(60), IntV(900)>>
L_blink == <<StrV("EBLINK"), StrV("R"), IntV(45), IntV(55), IntV(11)>>

L_phase_a == <<StrV("MSG"), IntV(30), StrV("start_phase"), StrV("a")>>
L_endphase_a == <<StrV("MSG"), IntV(80), StrV("end_phase"), StrV("a")>>
L_phase_b == <<StrV("MSG"), IntV(70), StrV("phase"), StrV("b")>>
L_endphase_b == <<StrV("MSG"), IntV(85), StrV("stop_phase"), StrV("b")>>

\* What the claims call a start_trial and an end_trial message.
StartTrialLine(line) ==
    /\ Len(line) \in {3, 4}
    /\ line[1] = StrV("MSG") /\ line[2].k = "int"
    /\ line[3] = StrV("start_trial")
EndTrialLine(line) ==
    /\ Len(line) = 3
    /\ line[1] = StrV("MSG") /\ line[2].k = "int"
    /\ line[3] \in {StrV("end_trial"), StrV("stop_trial")}

RECURSIVE Alternates(_, _, _)
\* From line i on, with a trial open or not before it, the start_trial and
\* end_trial messages of f alternate.
Alternates(f, i, open) ==
    IF i > Len(f) THEN TRUE
    ELSE IF StartTrialLine(f[i]) THEN ~open /\ Alternates(f, i + 1, TRUE)
    ELSE IF EndTrialLine(f[i]) THEN open /\ Alternates(f, i + 1, FALSE)
    ELSE Alternates(f, i + 1, open)

StartsOf(f) == SelectSeq(f, StartTrialLine)
EndsOf(f) == SelectSeq(f, EndTrialLine)
\* The messages of f are start_trial / end_trial pairs, each complete.
ProperPairs(f) ==
    Alternates(f, 1, FALSE) /\ Len(StartsOf(f)) = Len(EndsOf(f))

\* The series stored in a column of a trial record, <<>> if there is none.
Column(row, name) ==
    IF name \in DOMAIN row /\ row[name].k = "series" THEN row[name].v
    ELSE <<>>
HasColumn(row, name) == name \in DOMAIN row

-----------------------------------------------------------------------------
\* Trials: files of start_trial, end_trial and error messages

InitTrials ==
    InitWith({c \in Configs :
                 /\ c.pupil_size /\ c.gaze_pos /\ c.time_trace
                 /\ c.maxtracelen = None /\ c.traceprocessor = "none"
                 /\ c.phasefilter = "none" /\ ~c.fastnumbers},
             {L_start, L_start5, L_end, L_stop, L_error},
             MaxLinesTrials)

SpecTrials == InitTrials /\ [][Next]_vars

\* C1: when parse_file returns for a file whose messages are properly
\* alternating start_trial / end_trial pairs, the file record holds exactly
\* one trial record per pair, in the order of the start_trial messages (the
\* record of a start_trial message with an id carries that id).
C1_OneRecordPerPair ==
    (pc = "done" /\ ProperPairs(f_read)) =>
        /\ Len(filedm) = Len(StartsOf(f_read))
        /\ ntrial = Len(StartsOf(f_read))
        /\ \A i \in 1..Len(filedm) :
              Len(StartsOf(f_read)[i]) = 4 =>
                  filedm[i].trialid = StartsOf(f_read)[i][4]

\* Three pairs were read, the first with an id, the second closed by
\* stop_trial.
C1_Witness ==
    /\ pc = "done" /\ ProperPairs(f_read)
    /\ Len(filedm) = 3
    /\ f_read[4] = L_stop
    /\ filedm[1].trialid = IntV(5) /\ filedm[2].trialid = IntV(0)

\* C2 (as claimed): the trial id of a record is the explicit id of its
\* start_trial message, else the id of the previous trial of the file plus
\* 1, or 0 for the first trial.
C2_TrialIdAsClaimed ==
    (pc = "done" /\ ProperPairs(f_read)) =>
        /\ Len(filedm) = Len(StartsOf(f_read))
        /\ \A i \in 1..Len(filedm) :
              filedm[i].trialid =
                  IF Len(StartsOf(f_read)[i]) = 4 THEN StartsOf(f_read)[i][4]
                  ELSE IF i = 1 THEN IntV(0)
                  ELSE IntV(filedm[i - 1].trialid.n + 1)

-----------------------------------------------------------------------------
\* Toggles: one phase name, under every setting of pupil_size, gaze_pos and
\* time_trace

InitToggles ==
    InitWith({c \in Configs :
                 /\ c.maxtracelen = None /\ c.traceprocessor = "none"
                 /\ c.phasefilter = "none" /\ c.trialphase = None
                 /\ ~c.fastnumbers},
             {L_start, L_phase_a, L_endphase_a, L_sample},
             MaxLinesToggles)

SpecToggles == InitToggles /\ [][Next]_vars

\* What the claims call a start_phase message.
StartPhaseLine(line) ==
    /\ Len(line) = 4
    /\ line[1] = StrV("MSG") /\ line[2].k = "int"
    /\ line[3] \in {StrV("start_phase"), StrV("phase")}
    /\ line[4].k = "str"

\* The step reads a line in parse_trial's loop.
TrialReads == pc = "trial" /\ Len(f_read') = Len(f_read) + 1
LineRead == f_read'[Len(f_read')]

\* C3 (as claimed): under every setting of the toggles, a start_phase
\* message that names a phase already opened and closed in the same trial
\* raises a fatal error.
C3_ReusedPhaseRaises ==
    [][(/\ TrialReads
        /\ StartPhaseLine(LineRead)
        /\ ("t_offset_" \o LineRead[4].s) \in DOMAIN trialdm
        /\ current_phase = None)
       => (pc' = "raised" /\ exc' = "Exception")]_vars

\* The step reads a start_phase message that names the phase that is open.
RestartsOpenPhase ==
    /\ TrialReads
    /\ StartPhaseLine(LineRead)
    /\ current_phase = LineRead[4]

WarnedStillOngoing(name) ==
    \E i \in 1..Len(warned') :
        warned'[i] = <<"Phase started while phase was still ongoing", name>>

-----------------------------------------------------------------------------
\* Scenario: the lines of the log of the specification's first scenario

S_start == <<StrV("MSG"), IntV(10), StrV("start_trial"), IntV(1)>>
S_phase == <<StrV("MSG"), IntV(10), StrV("start_phase"), StrV("reading")>>
S_sample1 == <<IntV(100), FloatV(50), FloatV(60), FloatV(900)>>
S_sample2 == <<IntV(110), FloatV(51), FloatV(61), FloatV(905)>>
S_endphase == <<StrV("MSG"), IntV(120), StrV("end_phase"), StrV("reading")>>
S_end == <<StrV("MSG"), IntV(120), StrV("end_trial")>>
ScenarioLog == <<S_start, S_phase, S_sample1, S_sample2, S_endphase, S_end>>

InitScenario ==
    InitWith({DefaultConfig, [DefaultConfig EXCEPT !.fastnumbers = TRUE]},
             {ScenarioLog[i] : i \in 1..Len(ScenarioLog)},
             MaxLinesScenario)

SpecScenario == InitScenario /\ [][Next]_vars

\* C4 (as claimed): parsing the scenario's log with default options yields
\* one trial record, with id 1, ttrace_reading = [0, 10],
\* xtrace_reading = [50.0, 51.0], ytrace_reading = [60.0, 61.0] and
\* ptrace_reading = [900.0, 905.0].
C4_ScenarioAsClaimed ==
    (pc = "done" /\ f_read = ScenarioLog) =>
        /\ Len(filedm) = 1
        /\ filedm[1].trialid = IntV(1)
        /\ Column(filedm[1], "ttrace_reading") = <<FloatV(0), FloatV(10)>>
        /\ Column(filedm[1], "xtrace_reading") = <<FloatV(50), FloatV(51)>>
        /\ Column(filedm[1], "ytrace_reading") = <<FloatV(60), FloatV(61)>>
        /\ Column(filedm[1], "ptrace_reading") = <<FloatV(900), FloatV(905)>>

-----------------------------------------------------------------------------
\* Events: samples, fixations and blinks in two phases, default options

InitEvents ==
    InitWith({DefaultConfig},
             {L_start, L_phase_a, L_endphase_a, L_phase_b, L_endphase_b,
              L_sample, L_short, L_fix, L_blink},
             MaxLinesEvents)

SpecEvents == InitEvents /\ [][Next]_vars

\* What the claims call an end_phase message.
EndPhaseLine(line) ==
    /\ Len(line) = 4
    /\ line[1] = StrV("MSG") /\ line[2].k = "int"
    /\ line[3] \in {StrV("end_phase"), StrV("stop_phase")}
    /\ line[4].k = "str"

\* The step reads an end_phase message that names the open phase.
ClosesByName ==
    /\ TrialReads
    /\ EndPhaseLine(LineRead)
    /\ current_phase = LineRead[4]

\* The trial records made so far, the one under construction included.
Rows == IF pc = "trial" THEN Append(filedm, trialdm) ELSE filedm

\* C5 (as claimed): the first entry of a stored, non-empty time trace is 0.
C5_TimeTraceStartsAtZero ==
    \A i \in 1..Len(Rows) : \A name \in {"a", "b"} :
        Column(Rows[i], "ttrace_" \o name) # <<>> =>
            Column(Rows[i], "ttrace_" \o name)[1] = FloatV(0)

\* A recorded trace, entry by entry less the onset (a shift of 0 leaves it).
Shifted(raw, shift) == [i \in 1..Len(raw) |-> FloatV(raw[i].n - shift)]

TimePrefixes ==
    {"ttrace_", "fixstlist_", "fixetlist_", "blinkstlist_", "blinketlist_"}

\* C6 (as claimed): when end_phase closes the phase, each of ttrace,
\* fixstlist, fixetlist, blinkstlist and blinketlist is stored as the
\* recorded timestamps minus the phase's onset timestamp; ptrace, xtrace,
\* ytrace, fixxlist and fixylist are stored unshifted.
C6_TimeColumnsRebased ==
    [][ClosesByName =>
        \A i \in 1..Len(TRACES) :
            Column(trialdm', TRACES[i].prefix \o current_phase.s) =
                Shifted(acc[TRACES[i].field],
                        IF TRACES[i].prefix \in TimePrefixes
                        THEN trialdm["t_onset_" \o current_phase.s].n
                        ELSE 0)]_vars

\* The index in f of the last start_phase message, 0 if there is none.
LastStartPhase(f) ==
    IF \E i \in 1..Len(f) : StartPhaseLine(f[i])
    THEN CHOOSE i \in 1..Len(f) :
            /\ StartPhaseLine(f[i])
            /\ \A j \in (i + 1)..Len(f) : ~StartPhaseLine(f[j])
    ELSE 0

\* The number of lines of f after line i that Ok accepts.
AcceptedAfter(f, i, Ok(_)) ==
    Cardinality({j \in (i + 1)..Len(f) : Ok(f[j])})

\* C7: when an end_phase message with the matching name closes a phase (no
\* trace processor, no maxtracelen), ptrace, xtrace, ytrace and ttrace are
\* stored with as many entries as sample lines were accepted while the
\* phase was open, the fixation lists with as many as fixation lines, the
\* blink lists with as many as blink lines.
C7_LengthsAreCounts ==
    [][ClosesByName =>
        LET name == current_phase.s
            from == LastStartPhase(f_read)
            len(prefix) == Len(Column(trialdm', prefix \o name))
        IN  /\ pc' = "trial"
            /\ current_phase' = None
            /\ \A p \in {"ptrace_", "xtrace_", "ytrace_", "ttrace_"} :
                  /\ HasColumn(trialdm', p \o name)
                  /\ len(p) = AcceptedAfter(f_read, from, sample_ok)
            /\ \A p \in {"fixxlist_", "fixylist_", "fixstlist_",
                         "fixetlist_"} :
                  /\ HasColumn(trialdm', p \o name)
                  /\ len(p) = AcceptedAfter(f_read, from, fixation_ok)
            /\ \A p \in {"blinkstlist_", "blinketlist_"} :
                  /\ HasColumn(trialdm', p \o name)
                  /\ len(p) = AcceptedAfter(f_read, from, blink_ok)]_vars

\* A phase that held no sample was closed by name after a phase that held
\* one.
C7_Witness ==
    /\ pc = "trial" /\ current_phase = None
    /\ Len(f_read) > 0 /\ EndPhaseLine(f_read[Len(f_read)])
    /\ Len(Column(trialdm, "ptrace_a")) = 1
    /\ HasColumn(trialdm, "ptrace_b")
    /\ Len(Column(trialdm, "ptrace_b")) = 0

-----------------------------------------------------------------------------
\* Truncation: a phase opened with the trial, under maxtracelen and a trace
\* processor

InitTrunc ==
    InitWith({c \in Configs :
                 /\ c.pupil_size /\ c.gaze_pos /\ c.time_trace
                 /\ c.phasefilter = "none" /\ c.trialphase = StrV("a")
                 /\ ~c.fastnumbers},
             {L_start, L_endphase_a, L_sample, L_sample2, L_fix},
             MaxLinesTrunc)

SpecTrunc == InitTrunc /\ [][Next]_vars

\* The step closes the open phase: its columns appear in the trial record.
Closes ==
    /\ pc = "trial"
    /\ current_phase # None
    /\ ~HasColumn(trialdm, "fixxlist_" \o current_phase.s)
    /\ HasColumn(trialdm', "fixxlist_" \o current_phase.s)

\* The warnings of the step say that the column was too long.
WarnedTooLong(colname) ==
    \E i \in 1..Len(warned') : warned'[i] = <<"Trace is too long", colname>>

\* The recorded trace tr as numbers, after the trace processor if one is
\* configured and the trace is a signal trace.
AfterProcessor(tr) ==
    IF tr.label # "" /\ cfg.traceprocessor = "downsample"
    THEN traceprocessor(tr.label, Shifted(acc[tr.field], 0))
    ELSE Shifted(acc[tr.field], 0)

\* C8: with maxtracelen = N, a column stored on phase close has at most N
\* entries; a trace that has M > N entries after the trace processor is
\* stored as its first N entries, with a warning; a trace with M <= N
\* entries, or any trace without maxtracelen, is stored whole, without a
\* warning.  (The phase's onset is 0 here, so that no column is shifted.)
C8_TruncatedAfterProcessor ==
    [][Closes =>
        \A i \in 1..Len(TRACES) :
            LET colname == TRACES[i].prefix \o current_phase.s
                p == AfterProcessor(TRACES[i])
                stored == Column(trialdm', colname)
            IN  /\ HasColumn(trialdm', colname)
                /\ IF cfg.maxtracelen # None /\ Len(p) > cfg.maxtracelen.n
                   THEN /\ stored = SubSeq(p, 1, cfg.maxtracelen.n)
                        /\ WarnedTooLong(colname)
                   ELSE /\ stored = p
                        /\ ~WarnedTooLong(colname)]_vars

\* Three samples were downsampled to two and then cut to one.
C8_Witness ==
    /\ pc = "trial" /\ current_phase = None
    /\ cfg.traceprocessor = "downsample" /\ cfg.maxtracelen = IntV(1)
    /\ Len(f_read) = 5 /\ f_read[2] = L_sample2 /\ f_read[3] = L_sample
    /\ f_read[4] = L_sample
    /\ Column(trialdm, "xtrace_a") = <<FloatV(51)>>
    /\ \E i \in 1..Len(warned) : warned[i] = <<"Trace is too long", "xtrace_a">>

-----------------------------------------------------------------------------
\* Vars: var messages in a trial

L_var == <<StrV("MSG"), IntV(20), StrV("var"), StrV("rt"), IntV(805)>>
L_var2 ==
    <<StrV("MSG"), IntV(25), StrV("var"), StrV("rt"), StrV("late"), IntV(7),
      FloatV(2)>>
L_var_path == <<StrV("MSG"), IntV(26), StrV("var"), StrV("path"), StrV("x")>>

InitVars ==
    InitWith({DefaultConfig, [DefaultConfig EXCEPT !.trialphase = StrV("a")]},
             {L_start, L_end, L_var, L_var2, L_var_path},
             MaxLinesVars)

SpecVars == InitVars /\ [][Next]_vars

\* What the claims call a var message.
VarLine(line) ==
    /\ Len(line) >= 5
    /\ line[1] = StrV("MSG") /\ line[2].k = "int"
    /\ line[3] = StrV("var") /\ line[4].k = "str"

\* The value fields of the var messages, space-joined.
ValueText(line) ==
    IF line = L_var THEN "805"
    ELSE IF line = L_var2 THEN "late 7 2.0"
    ELSE "x"

WarnedTwice(var) ==
    \E i \in 1..Len(warned') :
        warned'[i] = <<"Variable defined twice in one trial", var>>

\* C9: a var message read in a trial stores its space-joined value under
\* its name; a name already set in the trial gets the new value and a
\* warning is emitted; nothing is raised and no other column changes.
C9_VarSetsOrReplaces ==
    [][(TrialReads /\ VarLine(LineRead)) =>
        LET var == LineRead[4].s
        IN  /\ pc' = "trial" /\ exc' = ""
            /\ DOMAIN trialdm' = DOMAIN trialdm \cup {var}
            /\ trialdm'[var] = StrV(ValueText(LineRead))
            /\ \A c \in DOMAIN trialdm : c # var => trialdm'[c] = trialdm[c]
            /\ WarnedTwice(var) <=> var \in DOMAIN trialdm]_vars

\* A variable was set and then set again, to another value.
C9_Witness ==
    /\ pc = "trial"
    /\ Len(f_read) >= 3
    /\ f_read[Len(f_read) - 1] = L_var /\ f_read[Len(f_read)] = L_var2
    /\ trialdm["rt"] = StrV("late 7 2.0")
    /\ warned = << <<"Variable defined twice in one trial", "rt">> >>

-----------------------------------------------------------------------------
\* Missing: samples with missing values

InitMissing ==
    InitWith({DefaultConfig, [DefaultConfig EXCEPT !.fastnumbers = TRUE]},
             {L_start, L_phase_a, L_endphase_a, L_sample, L_missing,
              L_nopupil},
             MaxLinesMissing)

SpecMissing == InitMissing /\ [][Next]_vars

\* What the claims call a sample line: the fields the Sample docstring
\* shows, after a positive timestamp.
SampleLine(line) ==
    /\ Len(line) \in {5, 6, 8, 9}
    /\ line[1].k \in {"int", "float"} /\ line[1].n > 0

Missing(tok) == tok = StrV(".")
Zero(tok) == tok.k \in {"int", "float"} /\ tok.s = "" /\ tok.n = 0
LastOf(seq) == seq[Len(seq)]

\* C10: while a phase is open, a sample line with a missing-value token for
\* x, y or pupil size, or with a pupil size of 0, is recorded (its
\* timestamp too), with not-a-number for that field; the stored columns
\* hold not-a-number at the same places; nothing is raised.
C10_MissingIsNaN ==
    [][/\ (TrialReads /\ current_phase # None /\ SampleLine(LineRead)) =>
            /\ pc' = "trial" /\ exc' = ""
            /\ acc'.ttrace = Append(acc.ttrace, LineRead[1])
            /\ Len(acc'.xtrace) = Len(acc.xtrace) + 1
            /\ Len(acc'.ytrace) = Len(acc.ytrace) + 1
            /\ Len(acc'.ptrace) = Len(acc.ptrace) + 1
            /\ Missing(LineRead[2]) => LastOf(acc'.xtrace) = NaN
            /\ Missing(LineRead[3]) => LastOf(acc'.ytrace) = NaN
            /\ (Missing(LineRead[4]) \/ Zero(LineRead[4])) =>
                   LastOf(acc'.ptrace) = NaN
       /\ Closes =>
            \A p \in {"ptrace", "xtrace", "ytrace"} :
                LET stored == Column(trialdm', p \o "_" \o current_phase.s)
                IN  /\ Len(stored) = Len(acc[p])
                    /\ \A i \in 1..Len(stored) :
                          acc[p][i] = NaN => stored[i] = NaN]_vars

\* A phase with a sample whose x, y and pupil size are missing was stored.
C10_Witness ==
    /\ pc = "trial" /\ current_phase = None
    /\ Len(Column(trialdm, "ttrace_a")) = 2
    /\ Column(trialdm, "xtrace_a") = <<NaN, FloatV(52)>>
    /\ Column(trialdm, "ytrace_a") = <<NaN, FloatV(62)>>
    /\ Column(trialdm, "ptrace_a") = <<NaN, NaN>>

-----------------------------------------------------------------------------
\* Folder: one call of __init__ on a folder of up to three files

\* No parse_file is modelled on its own.
NoParse ==
    /\ cfg = DefaultConfig
    /\ inputs = {}
    /\ maxlines = 0
    /\ f_read = <<>>
    /\ pc = "init"
    /\ exc = ""
    /\ trialid = None
    /\ current_phase = None
    /\ acc = EmptyAcc
    /\ t_onset = IntV(0)
    /\ trialdm = EmptyTable
    /\ filedm = <<>>
    /\ l = <<>>
    /\ l_bound = FALSE
    /\ ntrial = 0
    /\ warned = <<>>
    /\ called = <<>>
    /\ filtered = <<>>
    /\ linestack = <<>>
    /\ message = None
    /\ fresh = FALSE
    /\ eof = FALSE
    /\ pushed = <<>>
    /\ redone = <<>>
    /\ csv_dm = NoCsv

\* __init__ is called with keyword arguments of keywords on one of folders.
InitFolderOf(folders, keywords) ==
    /\ NoParse
    /\ kw \in keywords
    /\ listdir \in folders
    /\ ipc = "start"
    /\ iexc = ""
    /\ listed = FALSE
    /\ self_traceprocessor = init_traceprocessor(DefaultKeywords).tp
    /\ input_files = <<>>
    /\ nparsed = 0
    /\ pool = 0
    /\ tasks = <<>>
    /\ completed = <<>>
    /\ results = <<>>
    /\ filedms = <<>>
    /\ dm = <<>>
    /\ fs = {FolderPath(f) : f \in listdir}
    /\ temp_files = <<>>
    /\ oslog = <<>>
    /\ child_temp_files = <<>>
    /\ NoMatch

InitFolder == InitFolderOf(Folders, Keywords)

SpecFolder == InitFolder /\ [][NextInit]_vars

\* The file records of the input files, in the order of input_files.
FileRecords == [i \in 1..Len(input_files) |-> parse_file_of(input_files[i])]
\* The rows of sequential (multiprocess=False) parsing of the input files.
SequentialRows == Stack(<<>>, FileRecords)

\* C11 (as claimed): with a pool of worker processes, the dataset holds the
\* file records in the order of the input files (sorted by file name), the
\* row order of sequential parsing of the same files.
C11_PoolKeepsFileOrder ==
    (ipc = "done" /\ pool > 0) => dm = SequentialRows

Reversed(seq) == [i \in 1..Len(seq) |-> seq[Len(seq) + 1 - i]]
\* The dataset that a pool of one process makes of the folder: its one
\* process parses the files in the order of input_files, p.map returns the
\* file records in that order, and the while loop pops them from the end.
OneWorkerRows ==
    LET files == sorted(Listed(listdir))
    IN  Stack(<<>>, Reversed([i \in 1..Len(files) |-> parse_file_of(files[i])]))

\* C12: whatever the order in which the processes of the pool finish, a
\* pool of 4 processes leaves the same dataset (the same trial records in
\* the same order) as a pool of 1 process.
C12_SameForOneAndFourWorkers ==
    (ipc = "done" /\ kw.multiprocess \in {IntV(1), IntV(4)}) =>
        dm = OneWorkerRows

\* Four processes parsed three files with trials, and finished the last
\* file first.
C12_Witness ==
    /\ ipc = "done" /\ kw.multiprocess = IntV(4)
    /\ completed = <<3, 1, 2>>
    /\ \A i \in 1..3 : Len(results[i]) > 0
    /\ Len(dm) >= 3

\* C14: with both downsample and a custom trace processor, __init__ raises
\* ValueError before it lists the folder or parses a file; with downsample
\* alone, self._traceprocessor is the default trace processor with that
\* downsample factor.
C14_DownsampleOrProcessor ==
    /\ (ipc # "start" /\ kw.downsample # None /\ kw.traceprocessor # "none")
       => /\ ipc = "raised" /\ iexc = "ValueError"
          /\ ~listed /\ input_files = <<>>
          /\ nparsed = 0 /\ tasks = <<>> /\ dm = <<>>
    /\ (ipc # "start" /\ kw.downsample # None /\ kw.traceprocessor = "none")
       => /\ ipc # "raised" /\ iexc = ""
          /\ self_traceprocessor.kind = "default"
          /\ self_traceprocessor.downsample = kw.downsample

\* __init__ raised on a folder that holds two files to parse.
C14_Witness ==
    /\ ipc = "raised" /\ iexc = "ValueError"
    /\ kw.downsample = IntV(2) /\ kw.traceprocessor = "custom"
    /\ Cardinality(Listed(listdir)) = 2

\* C15 (as claimed): the files are parsed in the process of __init__ only
\* when multiprocess is False; when it is None they are parsed by a pool,
\* as for a number of processes.
C15_OnlyFalseIsSequential ==
    (ipc \notin {"start", "raised"}) =>
        (pool = 0 <=> kw.multiprocess = False)

-----------------------------------------------------------------------------
\* Processor: a phase opened with the trial, with and without a trace
\* processor, under every setting of the toggles

InitProcessor ==
    InitWith({c \in Configs :
                 /\ c.maxtracelen = None /\ c.phasefilter = "none"
                 /\ c.trialphase = StrV("a") /\ ~c.fastnumbers},
             {L_start, L_end, L_endphase_a, L_sample, L_fix},
             MaxLinesProcessor)

SpecProcessor == InitProcessor /\ [][Next]_vars

\* The signal traces that the toggles enable, in end_phase's order.
EnabledSignals ==
    SelectSeq(<< <<"pupil", "ptrace">>, <<"xcoor", "xtrace">>,
                 <<"ycoor", "ytrace">>, <<"time", "ttrace">> >>,
              LAMBDA p : \/ p[1] = "pupil" /\ cfg.pupil_size
                         \/ p[1] \in {"xcoor", "ycoor"} /\ cfg.gaze_pos
                         \/ p[1] = "time" /\ cfg.time_trace)

\* One call per signal trace of sigs: its label and what was recorded.
OneCallEach(sigs) ==
    [i \in 1..Len(sigs) |-> <<sigs[i][1], Shifted(acc[sigs[i][2]], 0)>>]

\* C16 (as claimed): when a phase is closed with a trace processor
\* configured, the trace processor is called once for each enabled signal
\* trace that is not empty, with its label, and for no other trace.
C16_CalledForNonEmptyTraces ==
    [][(Closes /\ cfg.traceprocessor # "none") =>
        called' = OneCallEach(SelectSeq(EnabledSignals,
                                        LAMBDA p : acc[p[2]] # <<>>))]_vars

\* C16: when a phase is closed with a trace processor configured, the trace
\* processor is called exactly once for each enabled signal trace, empty or
\* not, with the label (pupil, xcoor, ycoor, time) and the recorded values
\* of that trace; it is never called for the fixation or blink lists, nor
\* on any other step, nor when no trace processor is configured.
C16_CalledOncePerEnabledTrace ==
    [][IF Closes /\ cfg.traceprocessor # "none"
       THEN called' = OneCallEach(EnabledSignals)
       ELSE called' = <<>>]_vars

\* The time trace is off; a phase with a sample and a fixation was closed
\* by its end_phase message.
C16_Witness ==
    /\ pc = "trial" /\ current_phase = None
    /\ cfg.traceprocessor = "downsample" /\ ~cfg.time_trace
    /\ Len(Column(trialdm, "fixxlist_a")) = 1
    /\ called = << <<"pupil", <<FloatV(900)>> >>, <<"xcoor", <<FloatV(50)>> >>,
                   <<"ycoor", <<FloatV(60)>> >> >>

-----------------------------------------------------------------------------
\* Phases: start_phase and end_phase messages of two names, default options

InitPhases ==
    InitWith({DefaultConfig},
             {L_start, L_phase_a, L_endphase_a, L_phase_b, L_endphase_b,
              L_sample, L_fix},
             MaxLinesPhases)

SpecPhases == InitPhases /\ [][Next]_vars

\* The step reads a start_phase message while a phase is open.
StartsWhileOpen ==
    /\ TrialReads
    /\ StartPhaseLine(LineRead)
    /\ current_phase # None

\* The phases that a trial record shows as open: started, not ended.
OpenIn(row) ==
    {name \in {"a", "b"} :
        HasColumn(row, "t_onset_" \o name)
        /\ ~HasColumn(row, "t_offset_" \o name)}

C18_EndPhaseNeedsOpenName ==
    [][(TrialReads /\ EndPhaseLine(LineRead)) =>
        /\ pc' = "trial" /\ exc' = ""
        /\ IF current_phase = LineRead[4]
           THEN /\ current_phase' = None
                /\ warned' = <<>>
                /\ \A i \in 1..Len(TRACES) :
                      HasColumn(trialdm', TRACES[i].prefix \o LineRead[4].s)
                /\ trialdm'["t_offset_" \o LineRead[4].s] = LineRead[2]
           ELSE /\ warned' = << <<"Trace was ended while current phase was",
                                  LineRead[4].s>> >>
                /\ UNCHANGED <<current_phase, acc, t_onset, trialdm,
                               filedm>>]_vars

\* With phase a open, an end_phase b was ignored, a sample was recorded and
\* an end_phase a closed the phase.
C18_Witness ==
    /\ f_read = <<L_start, L_phase_a, L_endphase_b, L_sample, L_endphase_a>>
    /\ pc = "trial" /\ current_phase = None
    /\ Column(trialdm, "ptrace_a") = <<FloatV(900)>>
    /\ ~HasColumn(trialdm, "t_offset_b")
    /\ ~HasColumn(trialdm, "ptrace_b")

-----------------------------------------------------------------------------
\* Errors: trials with error markers, with and without a phase opened with
\* the trial

InitErrors ==
    InitWith({DefaultConfig, [DefaultConfig EXCEPT !.trialphase = StrV("a")]},
             {L_start, L_end, L_error, L_sample, L_var},
             MaxLinesErrors)

SpecErrors == InitErrors /\ [][Next]_vars

\* What the claims call an error marker.
ErrorLine(line) ==
    Len(line) > 2 /\ line[1] = StrV("MSG") /\ line[3] = StrV("ERROR")

WarnedTrialEnded(name) ==
    \E i \in 1..Len(warned') :
        warned'[i] = <<"Trial ended while phase was still ongoing", name>>

\* The step ends the open trial at the end of the file.
EndsAtEndOfFile == pc = "trial" /\ f_read' = f_read /\ pc' # "trial"

\* C19: an error marker read in a trial sets data_error to 1 and ends the
\* trial at that line without raising: the trial record is appended to the
\* file record, an open phase is closed with a warning (its columns
\* stored).  A record of the file record never changes, and none is added
\* but at the end of a trial, so that no line after the error marker up to
\* the next start_trial touches the record.  A trial that ends by end_trial
\* or at the end of the file has data_error 0.
C19_ErrorEndsTrial ==
    [][/\ (TrialReads /\ ErrorLine(LineRead)) =>
            /\ pc' = "file" /\ exc' = ""
            /\ trialdm'["data_error"] = IntV(1)
            /\ filedm' = Append(filedm, trialdm')
            /\ current_phase' = None
            /\ current_phase # None =>
                  /\ WarnedTrialEnded(current_phase.s)
                  /\ Column(trialdm', "ptrace_" \o current_phase.s)
                        = Shifted(acc.ptrace, 0)
                  /\ HasColumn(trialdm', "blinketlist_" \o current_phase.s)
            /\ \A c \in DOMAIN trialdm :
                  c # "data_error" => trialdm'[c] = trialdm[c]
       /\ (pc = "file") => filedm' = filedm
       /\ SubSeq(filedm', 1, Len(filedm)) = filedm
       /\ Len(filedm') <= Len(filedm) + 1
       /\ ((TrialReads /\ EndTrialLine(LineRead)) \/ EndsAtEndOfFile) =>
            /\ trialdm'["data_error"] = IntV(0)
            /\ exc' = "" => filedm' = Append(filedm, trialdm')]_vars

\* An error marker ended a trial whose phase held a sample; the var and
\* end_trial messages after it left the record alone.
C19_Witness ==
    /\ cfg.trialphase = StrV("a")
    /\ f_read = <<L_start, L_sample, L_error, L_var, L_end>>
    /\ pc = "done"
    /\ Len(filedm) = 1
    /\ filedm[1]["data_error"] = IntV(1)
    /\ Column(filedm[1], "ptrace_a") = <<FloatV(900)>>
    /\ ~HasColumn(filedm[1], "rt")

-----------------------------------------------------------------------------
\* Eof: files that end in a trial, after an empty line, a sample or nothing

InitEof ==
    InitWith({DefaultConfig, [DefaultConfig EXCEPT !.trialphase = StrV("a")]},
             {L_start, L_end, L_phase_a, L_sample, <<>>},
             MaxLinesEof)

SpecEof == InitEof /\ [][Next]_vars

\* C20 (as claimed): when the file ends while a trial is open, whatever the
\* last line of the file, the trial is finalized without raising: an open
\* phase is closed with a warning and the trial record is appended to the
\* file record.
C20_EndOfFileFinalizesTrial ==
    [][EndsAtEndOfFile =>
        /\ pc' = "done" /\ exc' = ""
        /\ current_phase' = None
        /\ filedm' = Append(filedm, trialdm')
        /\ \A c \in DOMAIN trialdm : trialdm'[c] = trialdm[c]
        /\ current_phase # None =>
              /\ WarnedTrialEnded(current_phase.s)
              /\ HasColumn(trialdm', "ptrace_" \o current_phase.s)]_vars

-----------------------------------------------------------------------------
\* Filter: start_phase messages of two names under a phase filter that
\* turns down the name b

\* The longest file that is read.
MaxLinesFilter == 5

InitFilter ==
    InitWith({[DefaultConfig EXCEPT !.phasefilter = pf, !.trialphase = tp] :
                 pf \in {"none", "filter"}, tp \in {None, StrV("b")}},
             {L_start, L_phase_a, L_phase_b, L_endphase_b, L_sample},
             MaxLinesFilter)

SpecFilter == InitFilter /\ [][Next]_vars

\* The step handles a start_phase message: one read in parse_trial's
\* loop, or the one parse_trial makes up for the trialphase keyword.
StartPhaseRead == TrialReads /\ StartPhaseLine(LineRead)
TrialPhaseStarts ==
    /\ pc = "file" /\ Len(f_read') = Len(f_read) + 1 /\ pc' # "file"
    /\ cfg.trialphase # None
StartPhaseHandled == StartPhaseRead \/ TrialPhaseStarts
StartedName == IF StartPhaseRead THEN LineRead[4] ELSE cfg.trialphase

\* The columns end_phase and start_phase store for a phase.
PhaseColumns(name) ==
    {"t_onset_" \o name, "t_offset_" \o name}
        \cup {TRACES[i].prefix \o name : i \in 1..Len(TRACES)}

\* The name that the last start_phase message of the open trial gave; None
\* if the trial read none.
LastStarted ==
    LET from == CHOOSE i \in 1..Len(f_read) :
                    /\ StartTrialLine(f_read[i])
                    /\ \A j \in (i + 1)..Len(f_read) :
                          ~parse_trial_breaks(f_read[j])
        starts == {j \in (from + 1)..Len(f_read) : StartPhaseLine(f_read[j])}
    IN  IF starts = {} THEN cfg.trialphase
        ELSE f_read[CHOOSE j \in starts : \A k \in starts : k <= j][4]

\* C21: with a phase filter, a start_phase message makes exactly one call
\* of the filter, with the message's name and after the phase that was open
\* has been closed.  If the filter turns the name down, no phase is open
\* afterwards, the trial record has no column of that name (t_onset
\* included), nothing is raised for a name that was seen before, and the
\* samples that follow are discarded until another start_phase message.
C21_FilterAskedOnceAfterClose ==
    [][/\ (StartPhaseHandled /\ cfg.phasefilter # "none") =>
            /\ filtered' = << <<StartedName.s, None>> >>
            /\ ~phasefilter(StartedName.s) =>
                  /\ exc' = "" /\ pc' = "trial"
                  /\ current_phase' = None
                  /\ PhaseColumns(StartedName.s) \cap DOMAIN trialdm' = {}
       /\ ~StartPhaseHandled => filtered' = <<>>
       /\ (/\ TrialReads /\ sample_ok(LineRead)
           /\ cfg.phasefilter # "none"
           /\ LastStarted # None /\ ~phasefilter(LastStarted.s)) =>
            /\ current_phase = None
            /\ acc' = acc /\ trialdm' = trialdm]_vars

\* The filter turned down phase b, started while phase a with one sample
\* was open and started again; the sample that followed was discarded.
C21_Witness ==
    /\ cfg.phasefilter = "filter" /\ cfg.trialphase = None
    /\ f_read = <<L_start, L_phase_a, L_sample, L_phase_b, L_sample>>
    /\ pc = "trial" /\ current_phase = None
    /\ Column(trialdm, "ptrace_a") = <<FloatV(900)>>
    /\ ~HasColumn(trialdm, "t_onset_b")
    /\ acc.ptrace = <<FloatV(900)>>

-----------------------------------------------------------------------------
\* Lines: sample, fixation and blink lines and lines that are none of these,
\* inside and outside a phase, with and without fastnumbers

\* The longest file that is read.
MaxLinesLines == 5

\* A sample line with a timestamp of 0: a Sample only with fastnumbers.
L_sample0 == <<IntV(0), FloatV(50), FloatV(60), FloatV(900), StrV("...")>>

InitLines ==
    InitWith({DefaultConfig, [DefaultConfig EXCEPT !.fastnumbers = TRUE]},
             {L_start, L_phase_a, L_sample, L_sample0, L_short, L_fix,
              L_blink},
             MaxLinesLines)

SpecLines == InitLines /\ [][Next]_vars

SampleFields == {"ptrace", "xtrace", "ytrace", "ttrace"}
FixationFields == {"fixxlist", "fixylist", "fixstlist", "fixetlist"}
BlinkFields == {"blinkstlist", "blinketlist"}

\* Step: the accumulators in grown got one more entry each, at the end;
\* the others did not change.
OnlyGrew(grown) ==
    \A fld \in DOMAIN acc :
        IF fld \in grown
        THEN /\ Len(acc'[fld]) = Len(acc[fld]) + 1
             /\ SubSeq(acc'[fld], 1, Len(acc[fld])) = acc[fld]
        ELSE acc'[fld] = acc[fld]

\* The step reads a line that is not a message.
DataLineRead ==
    /\ Len(f_read') = Len(f_read) + 1
    /\ LineRead[1] # StrV("MSG")

\* C22: while a phase is open, a line that is not a message and is accepted
\* as a Sample adds one entry to ptrace, xtrace, ytrace and ttrace and to
\* no other accumulator; one accepted as a Fixation adds one entry to the
\* four fixation lists only; one accepted as a Blink adds one entry to the
\* two blink lists only; a line that is none of these changes no
\* accumulator and emits no warning.  While no phase is open, inside or
\* outside a trial, such lines change neither the accumulators nor any
\* trial record.
C22_EventsFeedOwnAccumulators ==
    [][DataLineRead =>
        LET line == LineRead
        IN  IF pc = "trial" /\ current_phase # None
            THEN /\ sample_ok(line) => OnlyGrew(SampleFields)
                 /\ fixation_ok(line) => OnlyGrew(FixationFields)
                 /\ blink_ok(line) => OnlyGrew(BlinkFields)
                 /\ ~(sample_ok(line) \/ fixation_ok(line) \/ blink_ok(line))
                       => acc' = acc /\ warned' = <<>>
                 /\ acc'.ttrace # acc.ttrace =>
                       acc'.ttrace = Append(acc.ttrace, line[1])
                 /\ trialdm' = trialdm /\ filedm' = filedm
                 /\ current_phase' = current_phase
            ELSE /\ acc' = acc
                 /\ trialdm' = trialdm
                 /\ filedm' = filedm]_vars

\* In phase a, a sample, a fixation, a blink and a line of four fields were
\* read: one entry per sample accumulator, fixation list and blink list.
C22_Witness ==
    /\ Len(f_read) = 5
    /\ f_read[1] = L_start /\ f_read[2] = L_phase_a
    /\ {f_read[i] : i \in 3..5} = {L_sample, L_fix, L_blink}
    /\ pc = "trial" /\ current_phase = StrV("a")
    /\ \A fld \in SampleFields \cup FixationFields \cup BlinkFields :
          Len(acc[fld]) = 1

-----------------------------------------------------------------------------
\* Match: one call of match(l, *ref) on a token list and a schema

\* The longest token list and the longest schema.
MaxMatchLen == 3

\* The tokens of a line and the entries of a schema that are enumerated.
MatchTokens == {StrV("MSG"), StrV("x"), IntV(1), FloatV(1)}
MatchEntries ==
    {MSG, Kind("int"), LitSet({StrV("x"), StrV("y")}), ANY_VALUE, ANY_VALUES}

SeqsUpTo(S, lo, hi) == UNION {[1..n -> S] : n \in lo..hi}

InitMatch ==
    /\ NoParse
    /\ OneCall
    /\ margs \in [l : SeqsUpTo(MatchTokens, 0, MaxMatchLen),
                  ref : SeqsUpTo(MatchEntries, 1, MaxMatchLen)]
    /\ mret = "pending"

\* match returns.
CallMatch ==
    /\ mret = "pending"
    /\ mret' = IF match(margs.l, margs.ref) THEN "True" ELSE "False"
    /\ UNCHANGED <<margs, filevars, initvars, tempvars>>

NextMatch == CallMatch

SpecMatch == InitMatch /\ [][NextMatch]_vars

\* The schema ends with the wildcard ANY_VALUES.
EndsWithWildcard(ref) == ref[Len(ref)] = ANY_VALUES

\* C23: match returns true exactly when every schema position matches its
\* token and either the token list is as long as the schema, or the schema
\* ends with the wildcard and the token list is at least as long as the
\* schema; the tokens beyond the schema are unconstrained; a token list
\* shorter than the schema never matches.
C23_MatchLengthRule ==
    mret # "pending" =>
        LET toks == margs.l
            ref == margs.ref
        IN  /\ mret = "True" <=>
                 /\ \/ Len(toks) = Len(ref)
                    \/ EndsWithWildcard(ref) /\ Len(toks) >= Len(ref)
                 /\ \A i \in 1..Len(ref) :
                       i <= Len(toks) => MatchEntry(toks[i], ref[i])
            /\ Len(toks) < Len(ref) => mret = "False"
            /\ (mret = "True" /\ EndsWithWildcard(ref)) =>
                  \A tok \in MatchTokens : match(Append(toks, tok), ref)

\* A token list longer than a schema that ends with the wildcard matched.
C23_Witness ==
    /\ margs.l = <<StrV("MSG"), IntV(1), StrV("x")>>
    /\ margs.ref = <<MSG, ANY_VALUES>>
    /\ mret = "True"

-----------------------------------------------------------------------------
\* Pushback: a parser whose classifiers push lines back with redo_line

\* The longest file that is read.
MaxLinesPushback == 3

InitPushback ==
    InitWith({[DefaultConfig EXCEPT !.parser = "pushback"]},
             {L_start, L_end, L_sample},
             MaxLinesPushback)

SpecPushback == InitPushback /\ [][Next]_vars

\* The step delivers a line to parse_file's or to parse_trial's loop.
Delivers == f_read' # f_read \/ redone' # redone

\* How often line is in seq.
Count(seq, line) == Cardinality({i \in 1..Len(seq) : seq[i] = line})

\* C24 (as claimed): while lines are on the stack, the next line delivered
\* to either loop is the line pushed back last, and no line of the file is
\* read before it; when parse_file returns, every line that was pushed back
\* has been delivered exactly once.
C24_PushedBackIsNextDelivered ==
    [][/\ (Delivers /\ linestack # <<>>) =>
            /\ f_read' = f_read
            /\ redone' = Append(redone, linestack[Len(linestack)])
       /\ (pc' = "done") =>
            /\ linestack' = <<>>
            /\ \A i \in 1..Len(pushed') : Count(redone', pushed'[i]) = 1]_vars

-----------------------------------------------------------------------------
\* SMI: files of message lines and samples, parsed by SMIParser

\* The longest file that is read.
MaxLinesSmi == 4

\* 12529411046 MSG 1 # Message: a.jpg, and a message of the text 066
SMI_msg ==
    <<IntV(100), StrV("MSG"), IntV(1), StrV("#"), StrV("Message:"),
      StrV("a.jpg")>>
SMI_msg_number ==
    <<IntV(100), StrV("MSG"), IntV(1), StrV("#"), StrV("Message:"),
      IntV(66)>>
\* a comment line of the file's header
SMI_header == <<StrV("##"), StrV("Sample"), StrV("Rate:"), IntV(50)>>

InitSmi ==
    InitWith({[DefaultConfig EXCEPT !.parser = "smi"]},
             {SMI_msg, SMI_msg_number, SMI_header, L_sample},
             MaxLinesSmi)

SpecSmi == InitSmi /\ [][Next]_vars

\* What the claims call a message line of an SMI file.
SMIMessageLine(line) == Len(line) >= 4 /\ line[2] = StrV("MSG")

\* C25 (as claimed): every message line starts a trial and ends the one
\* before: parse_file does not raise, and when it has returned, a file with
\* k message lines has given k trial records with the trial ids 0 .. k-1 in
\* file order, each with the phase named phase started and closed; the
\* message that ended a trial was pushed back and read again.
C25_EveryMessageIsATrialBoundary ==
    /\ pc # "raised"
    /\ pc = "done" =>
        LET k == Len(SelectSeq(f_read, SMIMessageLine))
        IN  /\ Len(filedm) = k
            /\ \A i \in 1..k :
                  /\ filedm[i]["trialid"] = IntV(i - 1)
                  /\ HasColumn(filedm[i], "t_onset_phase")
                  /\ HasColumn(filedm[i], "t_offset_phase")
                  /\ HasColumn(filedm[i], "ptrace_phase")
            /\ Len(redone) = IF k = 0 THEN 0 ELSE k - 1
            /\ redone = pushed

-----------------------------------------------------------------------------
\* GazePoint: files parsed by GazePointParser, with a table next to each

\* The longest file that is read, and the most rows of the table.
MaxLinesGazePoint == 4
MaxCsvRows == 2

\* The tables io.readtxt may give: one or two columns, one of which has the
\* name of a column of the trial records.
CsvTables ==
    {[columns |-> cols,
      rows |-> [i \in 1..n |-> [c \in cols |-> IntV(10 * i)]]] :
        n \in 0..MaxCsvRows, cols \in {{"cond"}, {"cond", "trialid"}}}

InitGazePoint ==
    InitFile({[DefaultConfig EXCEPT !.parser = "gazepoint"]},
             {L_start, L_start5, L_end, L_sample},
             MaxLinesGazePoint, CsvTables)

SpecGazePoint == InitGazePoint /\ [][Next]_vars

\* The step reaches the end of the file and calls on_end_file.
CallsOnEndFile ==
    /\ pc \in {"file", "trial"} /\ pc' \in {"done", "raised"}
    /\ f_read' = f_read
    /\ exc' \notin {"UnboundLocalError", "IndexError"}

\* The trial records parsed from the file, when on_end_file is called.
Parsed == IF pc = "trial" THEN Append(filedm, trialdm') ELSE filedm

\* C26: at the end of the file GazePointParser joins the table to the file
\* record by row order.  If the table has not as many rows as trial records
\* were parsed, parse_file raises and no column of the table is attached;
\* if it has, every column of the table is attached, row i to trial record
\* i, and the trial records stay as many as they were, with their other
\* columns as they were.
C26_TableJoinedByRowOrder ==
    [][CallsOnEndFile =>
        IF Len(csv_dm.rows) # Len(Parsed)
        THEN /\ pc' = "raised" /\ exc' = "Exception"
             /\ filedm' = Parsed
        ELSE /\ pc' = "done" /\ exc' = ""
             /\ Len(filedm') = Len(Parsed)
             /\ \A i \in 1..Len(Parsed) :
                   /\ DOMAIN filedm'[i]
                         = (DOMAIN Parsed[i]) \cup csv_dm.columns
                   /\ \A c \in csv_dm.columns :
                         filedm'[i][c] = csv_dm.rows[i][c]
                   /\ \A c \in (DOMAIN Parsed[i]) \ csv_dm.columns :
                         filedm'[i][c] = Parsed[i][c]]_vars

\* Two trials were parsed and the table had two rows: its column is in
\* both trial records.
C26_Witness ==
    /\ cfg.parser = "gazepoint" /\ pc = "done"
    /\ Len(filedm) = 2 /\ csv_dm.columns = {"cond"}
    /\ filedm[1]["cond"] = IntV(10) /\ filedm[2]["cond"] = IntV(20)
    /\ filedm[1]["trialid"] = IntV(5)

\* ---------------------------------------------------------------------
\* Temporary files: __init__ on folders that hold .asc files, .edf files
\* and .tar.xz archives, sequentially and with a pool.
\* ---------------------------------------------------------------------

MaxMembers == 2

TempNames == {"a", "b"}

\* What a file of the folder can be: a text file, a binary log, or an
\* archive of one to MaxMembers text files and binary logs.
TempShapes ==
    [ext : {".asc", ".edf", ".EDF"}, members : {<<>>}]
    \cup {[ext |-> ".tar.xz", members |-> m] :
            m \in UNION {[1..k -> {".asc", ".edf"}] : k \in 1..MaxMembers}}

\* The file of name n and shape sh; the i-th member of the archive n is
\* named n followed by i, so that the members have different names.
TempFile(n, sh) ==
    [name |-> n, ext |-> sh.ext,
     trials |-> IF sh.ext = ".tar.xz" THEN 0 ELSE 1,
     members |-> [i \in 1..Len(sh.members) |->
                    [name |-> n \o ToString(i), ext |-> sh.members[i],
                     trials |-> 1]]]

TempFolders ==
    UNION {{{TempFile(n, g[n]) : n \in S} : g \in [S -> TempShapes]} :
           S \in SUBSET TempNames}

TempKeywords ==
    [downsample : {None}, traceprocessor : {"none"},
     multiprocess : {False, IntV(2)}]

InitTemp == InitFolderOf(TempFolders, TempKeywords)

SpecTemp == InitTemp /\ [][NextInit]_vars

\* path is in the registry reg
Registered(reg, path) == \E i \in 1..Len(reg) : reg[i] = path

\* parse_file returns for item in this step, in a process whose registry
\* is reg afterwards
ParsedItem(item, reg) ==
    \/ /\ ipc = "loop" /\ nparsed' = nparsed + 1
       /\ item = input_files[nparsed + 1]
       /\ reg = temp_files'
    \/ /\ ipc = "map"
       /\ \E i \in 1..Len(tasks) :
           /\ tasks[i] = "running" /\ tasks'[i] = "done"
           /\ item = input_files[i]
           /\ reg = child_temp_files'[i]

\* the registries that a path can leave: the one of __init__'s process and
\* those of the processes of the pool
Registries == {temp_files} \cup {child_temp_files[i] : i \in DOMAIN child_temp_files}

\* C27: a file is removed only after its path was registered, and a file
\* of the data folder never is; when parse_file returns for a path that
\* was registered as temporary, the file is gone and the path has left the
\* registry of the process that parsed it, and so has the file that the
\* converter wrote; converting a temporary .edf file registers the .asc
\* file and removes the .edf file.
C27_OnlyRegisteredFilesDeleted ==
    /\ [](\A f \in listdir : FolderPath(f) \in fs)
    /\ [](\A k \in 1..Len(oslog) :
            /\ oslog[k][1] = "remove" =>
                  \E j \in 1..(k - 1) : oslog[j] = <<"register", oslog[k][2]>>
            /\ oslog[k][1] = "edf2asc" =>
                  /\ k + 1 <= Len(oslog)
                  /\ oslog[k + 1] = <<"register", oslog[k][3]>>
                  /\ oslog[k][3] \in fs \/ \E j \in (k + 2)..Len(oslog) :
                                               oslog[j] = <<"remove", oslog[k][3]>>
                  /\ (\E j \in 1..(k - 1) : oslog[j] = <<"register", oslog[k][2]>>)
                        => /\ k + 2 <= Len(oslog)
                           /\ oslog[k + 2] = <<"remove", oslog[k][2]>>
                           /\ oslog[k][2] \notin fs)
    /\ [][\A i \in 1..Len(input_files) : \A reg \in Registries' :
            ParsedItem(input_files[i], reg) =>
                LET item == input_files[i]
                IN  /\ item.temp =>
                          item.path \notin fs' /\ ~Registered(reg, item.path)
                    /\ lower(item.ext) = ".edf" =>
                          /\ ConvertedPath(item.path) \notin fs'
                          /\ ~Registered(reg, ConvertedPath(item.path))]_vars

\* C27 witness: every file was parsed, one of them a binary log taken out
\* of an archive, which was converted and removed, and the files that
\* exist are those of the data folder.
C27_Witness ==
    /\ ipc = "done"
    /\ \E i \in 1..Len(input_files) :
        /\ input_files[i].temp /\ input_files[i].ext = ".edf"
        /\ \E k \in 1..Len(oslog) :
              oslog[k] = <<"remove", input_files[i].path>>
        /\ \E k \in 1..Len(oslog) :
              oslog[k] = <<"remove", ConvertedPath(input_files[i].path)>>
    /\ fs = {FolderPath(f) : f \in listdir}

\* ---------------------------------------------------------------------
\* Accumulators: samples, fixations and blinks in phases that are closed
\* by name, by the next trial and by the end of the file, with and
\* without pupil size and maxtracelen.
\* ---------------------------------------------------------------------

MaxLinesAcc == 5

InitAcc ==
    InitWith({DefaultConfig, [DefaultConfig EXCEPT !.pupil_size = FALSE],
              [DefaultConfig EXCEPT !.maxtracelen = IntV(1)]},
             {L_start, L_phase_a, L_endphase_a, L_sample, L_fix, L_blink},
             MaxLinesAcc)

SpecAcc == InitAcc /\ [][Next]_vars

\* The lists of fields all have the same length.
SameLength(fields) ==
    \A f1 \in fields, f2 \in fields : Len(acc[f1]) = Len(acc[f2])

SamplePrefixes == {"ptrace_", "xtrace_", "ytrace_", "ttrace_"}

\* C28: while a phase is open the four sample accumulators have the same
\* length, and so have the four fixation lists and the two blink lists;
\* without a trace processor, those of ptrace, xtrace, ytrace and ttrace
\* that a trial record has of a phase have the same length.
C28_AccumulatorsInStep ==
    /\ current_phase # None =>
          /\ SameLength(SampleFields)
          /\ SameLength(FixationFields)
          /\ SameLength(BlinkFields)
    /\ cfg.traceprocessor = "none" =>
          \A i \in 1..Len(Rows) : \A name \in {"a", "b"} :
              \A p \in SamplePrefixes, q \in SamplePrefixes :
                  (HasColumn(Rows[i], p \o name)
                      /\ HasColumn(Rows[i], q \o name)) =>
                      Len(Column(Rows[i], p \o name))
                          = Len(Column(Rows[i], q \o name))

\* C28 witness: a phase that held two samples was closed by name and its
\* four traces are stored with two entries each.
C28_Witness ==
    /\ pc = "trial" /\ current_phase = None
    /\ cfg = DefaultConfig
    /\ \A fld \in SampleFields : Len(acc[fld]) = 2
    /\ \A p \in SamplePrefixes :
          /\ HasColumn(trialdm, p \o "a")
          /\ Len(Column(trialdm, p \o "a")) = 2

\* ---------------------------------------------------------------------
\* Phases and trials: trials that end by end_trial, by an error marker
\* and by the end of the file while a phase is open, with and without a
\* phase that starts with the trial.
\* ---------------------------------------------------------------------

MaxLinesSpan == 5

InitSpan ==
    InitWith({DefaultConfig, [DefaultConfig EXCEPT !.trialphase = StrV("a")]},
             {L_start, L_end, L_error, L_phase_a, L_phase_b, L_sample},
             MaxLinesSpan)

SpecSpan == InitSpan /\ [][Next]_vars

\* parse_trial returns in this step without raising
TrialReturns == pc = "trial" /\ pc' \in {"file", "done"}

\* C29: no phase is open outside a trial: when a trial starts the only
\* phase that can be open after the step is the one that starts with the
\* trial, and when parse_trial returns (end_trial, error marker, end of
\* the file) no phase is open.
C29_PhaseOnlyInTrial ==
    /\ [](pc \in {"file", "done"} => current_phase = None)
    /\ [][(pc = "file" /\ pc' = "trial") =>
              /\ current_phase = None
              /\ current_phase' = cfg.trialphase]_vars
    /\ [][TrialReturns => current_phase' = None]_vars

\* C29 witness: a trial ended by end_trial or by an error marker while
\* phase b was open; the phase was closed into the trial record and a
\* second trial has started with no phase open.
C29_Witness ==
    /\ pc = "trial" /\ Len(filedm) = 1
    /\ cfg.trialphase = None
    /\ f_read[Len(f_read)] = L_start
    /\ f_read[Len(f_read) - 1] \in {L_end, L_error}
    /\ HasColumn(filedm[1], "t_offset_b")
    /\ current_phase = None

\* ---------------------------------------------------------------------
\* Events and phases: two samples that differ, fixations and blinks in
\* phases that are closed by name, by the next phase, by the end of the
\* trial and by the end of the file, over several trials.
\* ---------------------------------------------------------------------

MaxLinesLeak == 5

InitLeak ==
    InitWith({DefaultConfig},
             {L_start, L_end, L_phase_a, L_phase_b, L_endphase_a, L_sample,
              L_sample2, L_fix, L_blink},
             MaxLinesLeak)

SpecLeak == InitLeak /\ [][Next]_vars

\* line is an event of the kind that the list fld takes
AcceptedFor(fld, line) ==
    IF fld \in SampleFields THEN sample_ok(line)
    ELSE IF fld \in FixationFields THEN fixation_ok(line)
    ELSE blink_ok(line)

\* what the list fld takes of an event
EventValue(fld, line) ==
    CASE fld = "ptrace" -> SamplePupil(line)
      [] fld = "xtrace" -> SampleX(line)
      [] fld = "ytrace" -> SampleY(line)
      [] fld = "ttrace" -> SampleT(line)
      [] fld = "fixxlist" -> line[6]
      [] fld = "fixylist" -> line[7]
      [] fld \in {"fixstlist", "blinkstlist"} -> line[3]
      [] fld \in {"fixetlist", "blinketlist"} -> line[4]

\* What the list fld takes of the events read since the open phase was
\* opened.
EventsOfPhase(fld) ==
    LET Test(line) == AcceptedFor(fld, line)
        ev == SelectSeq(SubSeq(f_read, LastStartPhase(f_read) + 1,
                               Len(f_read)), Test)
    IN  [k \in 1..Len(ev) |-> EventValue(fld, ev[k])]

\* The step stores the columns of the open phase in the trial record.
PhaseStored ==
    /\ current_phase # None
    /\ exc' = ""
    /\ ~HasColumn(trialdm, "ptrace_" \o current_phase.s)
    /\ HasColumn(trialdm', "ptrace_" \o current_phase.s)

RECURSIVE StoredEntries(_, _)
\* The number of entries that the columns of prefix hold in rows, over the
\* phases a and b.
StoredEntries(rows, prefix) ==
    IF rows = <<>> THEN 0
    ELSE Len(Column(Head(rows), prefix \o "a"))
             + Len(Column(Head(rows), prefix \o "b"))
             + StoredEntries(Tail(rows), prefix)

\* C30: when the columns of a phase are stored they hold the events
\* accepted since the phase was opened, in their order, and nothing else
\* (a column of times as read or less the onset of the phase); and then,
\* over all phases of all trials, no more entries are stored in the
\* columns of a list than events of its kind were read, so that no event
\* is in the columns of two phases or of two trials.
C30_NoLeakBetweenPhases ==
    [][PhaseStored =>
        /\ \A i \in 1..Len(TRACES) :
              LET raw == EventsOfPhase(TRACES[i].field)
                  col == Column(trialdm', TRACES[i].prefix \o current_phase.s)
                  onset == trialdm["t_onset_" \o current_phase.s].n
              IN  /\ HasColumn(trialdm', TRACES[i].prefix \o current_phase.s)
                  /\ \/ col = Shifted(raw, 0)
                     \/ /\ TRACES[i].prefix \in TimePrefixes
                        /\ col = Shifted(raw, onset)
        /\ \A fld \in {"ptrace", "fixxlist", "blinkstlist"} :
              LET Test(line) == AcceptedFor(fld, line)
              IN  StoredEntries(Rows', fld \o "_")
                      <= Len(SelectSeq(f_read, Test))]_vars

\* C30 witness: phase a held a sample and was closed by the start of phase
\* b, which held the other sample and was closed by the end of the file;
\* each phase has its own sample and only that.
C30_Witness ==
    /\ Len(f_read) = 5
    /\ f_read[1] = L_start /\ f_read[2] = L_phase_a /\ f_read[3] = L_sample
    /\ f_read[4] = L_phase_b /\ f_read[5] = L_sample2
    /\ pc = "done"
    /\ Column(filedm[1], "ptrace_a") = <<FloatV(900)>>
    /\ Column(filedm[1], "ptrace_b") = <<FloatV(905)>>

\* ---------------------------------------------------------------------
\* Onset and offset: phases opened by a message or with the trial, and
\* closed by name, by the next phase, by end_trial and by an error
\* marker.
\* ---------------------------------------------------------------------

MaxLinesOnset == 5

InitOnset ==
    InitWith({DefaultConfig, [DefaultConfig EXCEPT !.trialphase = StrV("a")]},
             {L_start, L_end, L_error, L_phase_a, L_phase_b, L_endphase_a,
              L_sample},
             MaxLinesOnset)

SpecOnset == InitOnset /\ [][Next]_vars

RECURSIVE OpenTrial(_, _)
\* The index in f of the start_trial message of the trial that is open
\* after n lines of f, 0 if none is.
OpenTrial(f, n) ==
    IF n = 0 THEN 0
    ELSE LET before == OpenTrial(f, n - 1)
         IN  IF before = 0
             THEN IF StartTrialLine(f[n]) THEN n ELSE 0
             ELSE IF EndTrialLine(f[n]) \/ ErrorLine(f[n]) THEN 0
             ELSE before

\* The timestamp that opened the open phase: that of the last start_phase
\* message of the open trial, 0 if the phase started with the trial.
OnsetOfOpenPhase ==
    LET from == OpenTrial(f_read, Len(f_read))
        opened == {j \in (from + 1)..Len(f_read) : StartPhaseLine(f_read[j])}
    IN  IF opened = {} THEN IntV(0)
        ELSE f_read[CHOOSE j \in opened : \A k \in opened : k <= j][2]

\* The line closes the open phase.
ClosesOpenPhase(line) ==
    \/ EndPhaseLine(line) /\ line[4] = current_phase
    \/ StartPhaseLine(line)
    \/ EndTrialLine(line)
    \/ ErrorLine(line)

\* C31: when the matching end_phase message, a start_phase message, the
\* end_trial message or an error marker is read while a phase is open, the
\* trial record gets t_offset_<phase> equal to the timestamp of that
\* message and holds t_onset_<phase> equal to the timestamp of the message
\* that opened the phase, 0 for a phase that started with the trial.
C31_OnsetAndOffsetAreTimestamps ==
    [][(TrialReads /\ current_phase # None /\ ClosesOpenPhase(LineRead)) =>
        /\ HasColumn(trialdm', "t_offset_" \o current_phase.s)
        /\ trialdm'["t_offset_" \o current_phase.s] = LineRead[2]
        /\ HasColumn(trialdm', "t_onset_" \o current_phase.s)
        /\ trialdm'["t_onset_" \o current_phase.s] = OnsetOfOpenPhase]_vars

\* C31 witness: the phase that started with the trial was closed by the
\* start of phase b, and phase b by the end of the trial.
C31_Witness ==
    /\ cfg.trialphase = StrV("a")
    /\ pc = "file" /\ Len(filedm) = 1
    /\ f_read = <<L_start, L_sample, L_phase_b, L_end>>
    /\ filedm[1]["t_onset_a"] = IntV(0)
    /\ filedm[1]["t_offset_a"] = IntV(70)
    /\ filedm[1]["t_onset_b"] = IntV(70)
    /\ filedm[1]["t_offset_b"] = IntV(90)

\* ---------------------------------------------------------------------
\* Messages out of place: start_trial messages in a trial, and var, phase
\* and end_trial messages between trials.
\* ---------------------------------------------------------------------

MaxLinesNested == 5

InitNested ==
    InitWith({DefaultConfig},
             {L_start, L_start5, L_end, L_phase_a, L_endphase_a, L_var,
              L_sample},
             MaxLinesNested)

SpecNested == InitNested /\ [][Next]_vars

\* parse_file's loop reads a line of the file.
FileReads == pc = "file" /\ Len(f_read') = Len(f_read) + 1

\* C32: a start_trial message read in a trial makes no trial record and
\* leaves the trial id, the open phase, its lists and the record of the
\* open trial as they are, and the trial goes on; a var, start_phase,
\* end_phase or end_trial message read between trials changes no trial
\* record, starts no trial and opens no phase.
C32_MisplacedMessagesIgnored ==
    /\ [][(TrialReads /\ StartTrialLine(LineRead)) =>
            /\ pc' = "trial" /\ exc' = ""
            /\ filedm' = filedm /\ trialdm' = trialdm
            /\ ntrial' = ntrial /\ trialid' = trialid
            /\ current_phase' = current_phase /\ acc' = acc]_vars
    /\ [][(FileReads /\ (\/ VarLine(LineRead)
                         \/ StartPhaseLine(LineRead)
                         \/ EndPhaseLine(LineRead)
                         \/ EndTrialLine(LineRead))) =>
            /\ pc' = "file" /\ exc' = ""
            /\ filedm' = filedm /\ trialdm' = trialdm
            /\ ntrial' = ntrial /\ trialid' = trialid
            /\ current_phase' = current_phase /\ acc' = acc]_vars

\* C32 witness: a trial with the id 0 read a start_trial message with the
\* id 5 while phase a was open, then a sample, and ended with end_trial:
\* one record, with the id 0 and the sample in phase a.
C32_Witness ==
    /\ f_read = <<L_start, L_phase_a, L_start5, L_sample, L_end>>
    /\ pc = "file" /\ Len(filedm) = 1
    /\ filedm[1]["trialid"] = IntV(0)
    /\ Len(Column(filedm[1], "ptrace_a")) = 1

====
